---- MODULE Spec2Model ----
(***************************************************************************)
(* Query builder and SELECT compiler of quazy (quazy/db_query.py,          *)
(* quazy/translator_psql.py).                                              *)
(*                                                                         *)
(* SQL text is a sequence of tokens, so that splicing, placeholder         *)
(* renaming and clause order are visible.  DBSQL objects stored in a       *)
(* select list live in a heap, because q[name] hands the stored object     *)
(* back to the caller and DBSQL.aggregate / DBSQL.arg write to it.         *)
(***************************************************************************)
EXTENDS Integers, Sequences, FiniteSets, TLC

\* ------------------------------------------------------------------ bounds
MaxQueries == 3
MaxOps == 3
MaxVal == 2
MaxObjs == 5
MaxRows == 3
MaxWrites == 3
MaxBinds == 2

\* -------------------------------------------------------------- constants
None == 0
\* None in DBQuery.window
NoWindow == -1
NoTable == ""
NoErr == ""
QuazyFrozen == "QuazyFrozen"
QuazyFieldNameError == "QuazyFieldNameError"
QuazyWrongOperation == "QuazyWrongOperation"
QuazyError == "QuazyError"
QuazyTranslatorException == "QuazyTranslatorException"
KeyError == "KeyError"
TypeError == "TypeError"
AttributeError == "AttributeError"

QIds == 1..MaxQueries
Scratch == 0
Values == 1..MaxVal

\* f'q{id(self)}' : one name per object
QName(i) == <<"q0", "q1", "q2", "q3", "q4", "q5", "q6", "q7">>[i + 1]

\* ----------------------------------------------------------------- schema
\* tests/test_short.py: class User / class Task, with a numeric column
DBfields(table) ==
  IF table = "task" THEN <<"title", "amount", "sender", "receiver", "id">>
  ELSE IF table = "user" THEN <<"name", "id">>
  ELSE IF table = "comment" THEN <<"text", "task", "id">>
  ELSE IF table = "catalog" THEN <<"cid", "name", "unit", "id">>
  ELSE <<>>

IsField(table, item) == \E i \in 1..Len(DBfields(table)) : DBfields(table)[i] = item

\* field.ref of the declared fields: sender and receiver are required
\* references to User
FieldRef(table, item) == table = "task" /\ item \in {"sender", "receiver"}
PkColumn(table) == "id"

\* DB.many_fields: class Comment has a required reference `task` to Task
many_fields(table) ==
  IF table = "task"
  THEN <<[name |-> "comments", foreign_table |-> "comment", foreign_field |-> "task",
          middle_table |-> ""]>>
  ELSE <<>>

\* DB.many_to_many_fields: Task.watchers: ManyToMany[User], User.tasks: ManyToMany[Task]
many_to_many_fields(table) ==
  IF table = "task"
  THEN <<[name |-> "watchers", foreign_table |-> "user", foreign_field |-> "tasks",
          middle_table |-> "task_watchers"]>>
  ELSE <<>>

\* ----------------------------------------------------------------- tokens
Tok(k, s, a, n) == [k |-> k, s |-> s, a |-> a, n |-> n]
Kw(s) == Tok("kw", s, <<>>, 0)
Op(s) == Tok("op", s, <<>>, 0)
\* "alias"."column"
ColTok(alias, column) == Tok("col", column, alias, 0)
NumTok(n) == Tok("num", "", <<>>, n)
NameTok(a) == Tok("name", "", a, 0)

\* argument keys: '_arg_N', a variable name, or '_<query name>_arg_N'
Key(s, a, n) == [s |-> s, a |-> a, n |-> n]
VarKey(name) == Key(name, <<>>, 0)
\* k.startswith('_arg_')
StartsWithArg(key) == key.s = "_arg_" /\ key.a = <<>>

JoinAliasMark == <<"{join_alias}">>

\* ------------------------------------------------------------------ state
\* DBJoin(kind, with_table, condition); with_table is a table (tbl) or a
\* query (qry); alias is the key it is filed under in DBQuery.joins
NoJoin == [alias |-> <<>>, kind |-> "NONE", tbl |-> NoTable, qry |-> 0, condition |-> <<>>]
DBJoin(kind, tbl, qry, condition) ==
  [alias |-> <<>>, kind |-> kind, tbl |-> tbl, qry |-> qry, condition |-> condition]

DBQueryField(table, alias, join, repr) ==
  [table |-> table, alias |-> alias, join |-> join, repr |-> repr]

\* DBSQL(query, sql, aggregated); ref is the heap cell of a stored object
DBSQL(query, sql, aggregated) ==
  [sql_text |-> sql, aggregated |-> aggregated, query |-> query, ref |-> 0,
   qf |-> FALSE, cur |-> DBQueryField(NoTable, <<>>, NoJoin, <<>>)]
NoValue == DBSQL(0, <<>>, FALSE)

NoChain == [id_name |-> "", next_name |-> "", sql_value |-> <<>>]

\* DBQuery.__init__ before _collect_scheme
BlankQuery ==
  [alive |-> FALSE, name |-> "", table_class |-> NoTable, fields |-> <<>>,
   fetch_objects |-> FALSE, joins |-> <<>>, sort_list |-> <<>>, filters |-> <<>>,
   chained_opts |-> NoChain, groups |-> <<>>, group_filters |-> <<>>,
   has_aggregates |-> FALSE, window |-> <<NoWindow, NoWindow>>, is_distinct |-> FALSE,
   with_queries |-> <<>>, frozen_sql |-> <<>>, args |-> <<>>, arg_counter |-> 0,
   bound |-> {}]

VARIABLES
  Q,       \* slot -> DBQuery object
  heap,    \* cell -> DBSQL / DBQueryField stored in a select list
  nops,    \* calls made
  last,    \* the last call: operation, target, exception, state before it
  chain,   \* the evaluation of a chained statement by the database
  conn,    \* the connection of PsycopgConnection and what the database holds
  mod,     \* the tables declared in a module and bound to a DBFactory
  schema,  \* a table, its dumped schema and the table loaded from the dump
  related, \* the rows of the tables and the rows a query over them returned
  site,    \* a with-block with reuse(): DBQuery.queries and the callers in it
  store    \* an item with its collections and the rows the database holds

vars == <<Q, heap, nops, last, chain, conn, mod, schema, related, site, store>>

\* the part of the state the handlers thread through
Cur == [Q |-> Q, heap |-> heap, err |-> NoErr]
Raise(S, e) == [S EXCEPT !.err = e]
Ok(S) == S.err = NoErr

\* ------------------------------------------------------------- arguments
R(S, v) == [S |-> S, val |-> v]

ArgsKeys(args) == {args[i].key : i \in 1..Len(args)}
ArgOf(args, key) == args[CHOOSE i \in 1..Len(args) : args[i].key = key].val
\* self.args[key] = value (a dict keeps the position of an existing key)
SetArg(args, key, value) ==
  IF key \in ArgsKeys(args)
  THEN [i \in 1..Len(args) |->
          IF args[i].key = key THEN [key |-> key, val |-> value] ELSE args[i]]
  ELSE Append(args, [key |-> key, val |-> value])

place_arg(key) == <<Tok("ph", key.s, key.a, key.n)>>

arg(S, q, value, aggregated) ==
  LET query == S.Q[q]
      S1 == [S EXCEPT !.Q[q].bound = @ \cup {value}]
  IN IF value = None THEN R(S, DBSQL(q, <<Kw("NULL")>>, FALSE))
     ELSE IF \E i \in 1..Len(query.args) : query.args[i].val = value
     THEN \* next(k for k, v in self.args.items() if v == value)
          R(S1, DBSQL(q, place_arg(query.args[CHOOSE i \in 1..Len(query.args) :
                                                /\ query.args[i].val = value
                                                /\ \A j \in 1..(i - 1) :
                                                     query.args[j].val # value].key),
                      aggregated))
     ELSE LET key == Key("_arg_", <<>>, query.arg_counter + 1)
          IN R([S1 EXCEPT !.Q[q].arg_counter = @ + 1,
                          !.Q[q].args = SetArg(@, key, value)],
               DBSQL(q, place_arg(key), aggregated))

var(S, q, name, value) ==
  R([S EXCEPT !.Q[q].args = SetArg(@, VarKey(name), value)],
    DBSQL(q, place_arg(VarKey(name)), FALSE))

\* ---------------------------------------------------------- DBQueryField
JoinAliases(joins) == {joins[i].alias : i \in 1..Len(joins)}

\* DBQuery._collect_scheme: the cursor on the bound table
scheme(S, q) ==
  DBQueryField(S.Q[q].table_class, <<S.Q[q].table_class>>, NoJoin, <<>>)

\* DBQueryField.__call__
SubName(cur, sub_name) ==
  DBQueryField(cur.table, cur.alias \o <<"_", sub_name>>, cur.join, <<>>)

RefAlias(cur, item) == <<cur.table, "__", item, "s">>

\* self._query.joins[self._alias] = self._join or DBJoin(SOURCE, self._table)
FileJoin(S, q, cur) ==
  [S EXCEPT !.Q[q].joins =
     Append(@, IF cur.join # NoJoin
               THEN [cur.join EXCEPT !.alias = cur.alias]
               ELSE [DBJoin("SOURCE", cur.table, 0, <<>>) EXCEPT !.alias = cur.alias])]

\* a cursor that files its join on every access
register_always(S, q, cur) == FileJoin(S, q, cur)
\* if self._alias not in self._query.joins: ...
register(S, q, cur) ==
  IF cur.alias \in JoinAliases(S.Q[q].joins) THEN S ELSE FileJoin(S, q, cur)

\* DBQueryField.__getattr__, `elif many_field := DB.many_fields.get(item)`
getattr_many(S1, q, cur, many_field) ==
  R(S1, [DBSQL(q, <<>>, FALSE) EXCEPT
           !.qf = TRUE,
           !.cur = DBQueryField(many_field.foreign_table, cur.alias \o <<"__", many_field.name>>,
                                DBJoin("LEFT", many_field.foreign_table, 0,
                                       <<ColTok(cur.alias, PkColumn(cur.table)), Op("="),
                                         ColTok(JoinAliasMark, many_field.foreign_field)>>),
                                <<>>)])

\* DBQueryField.__getattr__, `elif many_to_many_field := DB.many_to_many_fields.get(item)`
getattr_many_to_many(S1, q, cur, field) ==
  R(IF <<field.middle_table>> \in JoinAliases(S1.Q[q].joins) THEN S1
    ELSE [S1 EXCEPT !.Q[q].joins =
            Append(@, [DBJoin("INNER", field.middle_table, 0,
                              <<ColTok(cur.alias, PkColumn(cur.table)), Op("="),
                                ColTok(<<field.middle_table>>, cur.table)>>)
                         EXCEPT !.alias = <<field.middle_table>>])],
    [DBSQL(q, <<>>, FALSE) EXCEPT
       !.qf = TRUE,
       !.cur = DBQueryField(field.foreign_table, cur.alias \o <<"__", field.name>>,
                            DBJoin("INNER", field.foreign_table, 0,
                                   <<ColTok(<<field.middle_table>>, field.foreign_table), Op("="),
                                     ColTok(JoinAliasMark, PkColumn(field.foreign_table))>>),
                            <<>>)])

\* DBQueryField.__getattr__ for fields and relations of the table
getattr(S, q, cur, item) ==
  LET S1 == register(S, q, cur)
      field_path == <<ColTok(cur.alias, item)>>
  IN IF IsField(cur.table, item)
     THEN IF FieldRef(cur.table, item)
          THEN LET join_alias == RefAlias(cur, item)
                   \* DBJoinKind.INNER if field.required else DBJoinKind.LEFT
                   join_kind == "INNER"
                   \* field.type
                   target == "user"
                   join == DBJoin(join_kind, target, 0,
                                  field_path \o <<Op("="), ColTok(JoinAliasMark, PkColumn(target))>>)
               IN R(S1, [DBSQL(q, field_path, FALSE) EXCEPT
                           !.qf = TRUE,
                           !.cur = DBQueryField(target, join_alias, join, field_path)])
          ELSE R(S1, DBSQL(q, field_path, FALSE))
     ELSE IF \E i \in 1..Len(many_fields(cur.table)) : many_fields(cur.table)[i].name = item
     THEN getattr_many(S1, q, cur, many_fields(cur.table)[
            CHOOSE i \in 1..Len(many_fields(cur.table)) : many_fields(cur.table)[i].name = item])
     ELSE IF \E i \in 1..Len(many_to_many_fields(cur.table)) :
               many_to_many_fields(cur.table)[i].name = item
     THEN getattr_many_to_many(S1, q, cur, many_to_many_fields(cur.table)[
            CHOOSE i \in 1..Len(many_to_many_fields(cur.table)) :
              many_to_many_fields(cur.table)[i].name = item])
     ELSE R(Raise(S1, QuazyFieldNameError), NoValue)

\* x.a.b... : attribute access along a path, starting at a cursor
RECURSIVE Walk(_, _, _, _)
WalkOn(r, q, path) ==
  IF ~Ok(r.S) \/ Len(path) = 1 THEN r
  ELSE IF ~r.val.qf THEN R(Raise(r.S, AttributeError), NoValue)
  ELSE Walk(r.S, q, r.val.cur, Tail(path))
Walk(S, q, cur, path) == WalkOn(getattr(S, q, cur, Head(path)), q, path)

\* ------------------------------------------------------------------ DBSQL
\* the aggregated flag of an object now (a stored object is read in its cell)
CurAgg(S, v) == IF v.ref # 0 THEN S.heap[v.ref].aggregated ELSE v.aggregated
\* self.aggregated = True
SetAggregated(S, v) ==
  IF v.ref # 0 THEN [S EXCEPT !.heap[v.ref].aggregated = TRUE] ELSE S

HasAggText(text) == \E i \in 1..Len(text) : text[i].k = "agg"

\* DBSQL.func1 / DBSQL.sql
func1(S, self, tok) ==
  DBSQL(self.query, <<tok, Op("(")>> \o self.sql_text \o <<Op(")")>>, CurAgg(S, self))

\* DBSQL.aggregate
Aggregated(S1, self, fn) == R(S1, [func1(S1, self, Tok("agg", fn, <<>>, 0)) EXCEPT !.aggregated = TRUE])
aggregate(S, self, fn) == Aggregated(SetAggregated(S, self), self, fn)

\* DBSQL.__invert__
invert(S, self) == func1(S, self, Kw("NOT"))

\* DBSQL.postfix
postfix(S, self, word) ==
  DBSQL(self.query, self.sql_text \o <<Kw(word)>>, CurAgg(S, self))

\* an operand of an operator: a Python value (isval = FALSE) or an expression
PyVal(v) == [isval |-> FALSE, val |-> NoValue, v |-> v]
ExprVal(val) == [isval |-> TRUE, val |-> val, v |-> None]

\* DBSQL.arg
ArgOperand(S1, self, other) ==
  IF other.isval THEN R(S1, other.val)
  ELSE arg(S1, self.query, other.v, CurAgg(S1, self))
DBSQL_arg(S, self, other) ==
  ArgOperand(IF other.isval /\ CurAgg(S, other.val) THEN SetAggregated(S, self) ELSE S,
             self, other)

\* DBSQL.op
Composed(a, self, o, other_aggregated) ==
  R(a.S, DBSQL(self.query, self.sql_text \o <<Op(o)>> \o a.val.sql_text,
               CurAgg(a.S, self) \/ other_aggregated))
op(S, self, o, other) ==
  Composed(DBSQL_arg(S, self, other), self, o, other.isval /\ CurAgg(S, other.val))

\* ------------------------------------------------- the caller's expressions
\* what a caller passes to the builder: a lambda over the scheme (col, sel,
\* agg, op), a field name, or a bare Python value
Col(sub, path) == [t |-> "col", sub |-> sub, path |-> path]
Sel(name) == [t |-> "sel", name |-> name]
Agg(fn, of) == [t |-> "agg", fn |-> fn, of |-> of]
BinOp(lhs, o, rhs) == [t |-> "op", o |-> o, lhs |-> lhs, rhs |-> rhs]
IntLit(v) == [t |-> "lit", ty |-> "int", v |-> v]
VarE(name) == [t |-> "var", name |-> name]
Name(name) == [t |-> "name", name |-> name]
Absent == [t |-> "absent"]

FieldNames(fields) == {fields[i].name : i \in 1..Len(fields)}
FieldRefOf(fields, name) == fields[CHOOSE i \in 1..Len(fields) : fields[i].name = name].ref

\* DBQuery.__getitem__: self.fields[item], the stored object itself
getitem(S, q, name) ==
  IF name \in FieldNames(S.Q[q].fields)
  THEN R(S, [S.heap[FieldRefOf(S.Q[q].fields, name)]
               EXCEPT !.ref = FieldRefOf(S.Q[q].fields, name)])
  ELSE R(Raise(S, KeyError), NoValue)

\* the body of a lambda, evaluated left to right
RECURSIVE Eval(_, _, _)
AggregateOf(r, fn) == IF ~Ok(r.S) THEN r ELSE aggregate(r.S, r.val, fn)
Operand(x) == [S |-> x.S, o |-> ExprVal(x.val)]
Rhs(l, q, rhs) ==
  IF rhs.t = "lit" THEN [S |-> l.S, o |-> PyVal(rhs.v)] ELSE Operand(Eval(l.S, q, rhs))
Apply(l, r, o) == IF ~Ok(r.S) THEN R(r.S, NoValue) ELSE op(r.S, l.val, o, r.o)
Binary(l, q, e) == Apply(l, Rhs(l, q, e.rhs), e.o)
Eval(S, q, e) ==
  IF ~Ok(S) THEN R(S, NoValue)
  ELSE IF e.t = "col"
  THEN Walk(S, q, IF e.sub = "" THEN scheme(S, q) ELSE SubName(scheme(S, q), e.sub), e.path)
  ELSE IF e.t = "sel" THEN getitem(S, q, e.name)
  ELSE IF e.t = "agg" THEN AggregateOf(Eval(S, q, e.of), e.fn)
  ELSE IF e.t = "var" THEN var(S, q, e.name, None)
  ELSE Binary(Eval(S, q, e.lhs), q, e)

\* if expr.aggregated: self.has_aggregates = True
NoteAggregates(r, q) ==
  IF Ok(r.S) /\ CurAgg(r.S, r.val)
  THEN R([r.S EXCEPT !.Q[q].has_aggregates = TRUE], r.val)
  ELSE r

\* DBQuery.resolve
resolve(S, q, e) ==
  IF e.t = "name"
  THEN \* a string: a field of the scheme, else repr(expr)
       IF IsField(S.Q[q].table_class, e.name)
       THEN getattr(S, q, scheme(S, q), e.name)
       ELSE R(S, DBSQL(q, <<Tok("lit", e.name, <<>>, 0)>>, FALSE))
  ELSE IF e.t = "lit"
  THEN \* type(expr) is int: DBSQL(self, expr); other KNOWN_TYPES: self.arg(expr)
       IF e.ty = "int" THEN R(S, DBSQL(q, <<Tok("lit", "", <<>>, e.v)>>, FALSE))
       ELSE arg(S, q, e.v, FALSE)
  ELSE NoteAggregates(Eval(S, q, e), q)

\* DBQuery.max / sum / ...: an aggregate built before the call it is passed to
DBQuery_aggregate(S, q, fn, e) ==
  AggregateOf(resolve([S EXCEPT !.Q[q].has_aggregates = TRUE], q, e), fn)

\* ---------------------------------------------------------------- DBQuery
\* DBQuery._check_frozen
is_frozen(query) == query.frozen_sql # <<>>

\* an expression as it is kept in a clause list
Snap(S, v) == [v EXCEPT !.aggregated = CurAgg(S, v), !.ref = 0]

\* self.fields[name] = value
SetField(fields, name, c) ==
  IF name \in FieldNames(fields)
  THEN [i \in 1..Len(fields) |->
          IF fields[i].name = name THEN [name |-> name, ref |-> c] ELSE fields[i]]
  ELSE Append(fields, [name |-> name, ref |-> c])

StoreField(S, q, name, v) ==
  IF v.ref # 0 THEN [S EXCEPT !.Q[q].fields = SetField(@, name, v.ref)]
  ELSE [S EXCEPT !.heap = Append(@, v),
                 !.Q[q].fields = SetField(@, name, Len(S.heap) + 1)]
\* self.fields[name] = <the value an expression resolved to>
StoreResolved(r, q, name) ==
  IF ~Ok(r.S) THEN r.S ELSE StoreField(r.S, q, name, r.val)

\* DBQueryField.pk
scheme_pk(S, q, cur) == getattr(S, q, cur, PkColumn(cur.table))

\* for field_name in field_names: self.fields[field_name] = self.resolve(field_name)
RECURSIVE SelectNames(_, _, _)
SelectNames(S, q, names) ==
  IF ~Ok(S) \/ names = <<>> THEN S
  ELSE SelectNames(StoreResolved(resolve(S, q, Name(Head(names))), q, Head(names)),
                   q, Tail(names))

\* for field_name, field_value in fields.items(): ...
RECURSIVE SelectKw(_, _, _)
SelectKw(S, q, kw) ==
  IF ~Ok(S) \/ kw = <<>> THEN S
  ELSE SelectKw(StoreResolved(resolve(S, q, Head(kw).e), q, Head(kw).name), q, Tail(kw))

\* if self.fetch_objects: 'pk' keeps the objects, anything else gives them up
SelectPk(S, q, field_names) ==
  IF ~S.Q[q].fetch_objects THEN S
  ELSE IF \A i \in 1..Len(field_names) : field_names[i] # "pk"
  THEN [S EXCEPT !.Q[q].fetch_objects = FALSE]
  ELSE StoreResolved(scheme_pk(S, q, scheme(S, q)), q, PkColumn(S.Q[q].table_class))

\* DBQuery.select
select(S, q, field_names, kw) ==
  IF is_frozen(S.Q[q]) THEN Raise(S, QuazyFrozen)
  ELSE IF field_names = <<>> /\ kw = <<>> THEN S
  ELSE SelectKw(SelectNames(SelectPk(S, q, field_names), q,
                            IF S.Q[q].fetch_objects THEN SelectSeq(field_names, LAMBDA n : n # "pk")
                            ELSE field_names),
                q, kw)

\* getattr(self.scheme, k) == v   /   != v
ComparePk(pk, o, other) == IF ~Ok(pk.S) THEN pk ELSE op(pk.S, pk.val, o, other)
Compare(f, q, o, other) ==
  IF ~Ok(f.S) THEN f
  ELSE IF f.val.qf
  THEN \* DBQueryField.__eq__: self.pk == other
       ComparePk(scheme_pk(f.S, q, f.val.cur), o, other)
  ELSE op(f.S, f.val, o, other)

\* self.filters.append(...)
AppendFilter(r, q) ==
  IF ~Ok(r.S) THEN r.S ELSE [r.S EXCEPT !.Q[q].filters = Append(@, Snap(r.S, r.val))]

RECURSIVE FilterKw(_, _, _, _)
FilterKw(S, q, kw, o) ==
  IF ~Ok(S) \/ kw = <<>> THEN S
  ELSE FilterKw(AppendFilter(Compare(getattr(S, q, scheme(S, q), Head(kw).k), q, o, Head(kw).v), q),
                q, Tail(kw), o)

\* if sql.aggregated: self.group_filters.append(sql) else: self.filters.append(sql)
AddFilter(S, q, v) ==
  IF CurAgg(S, v)
  THEN [S EXCEPT !.Q[q].group_filters = Append(@, Snap(S, v))]
  ELSE [S EXCEPT !.Q[q].filters = Append(@, Snap(S, v))]
AddResolved(r, q) == IF ~Ok(r.S) THEN r.S ELSE AddFilter(r.S, q, r.val)
AddInverted(r, q) == IF ~Ok(r.S) THEN r.S ELSE AddFilter(r.S, q, invert(r.S, r.val))

\* the keyword part of filter
FilterKwargs(S1, q, kw) ==
  IF ~Ok(S1) THEN S1
  ELSE IF kw # <<>> /\ S1.Q[q].table_class = NoTable THEN Raise(S1, QuazyError)
  ELSE FilterKw(S1, q, kw, "=")

\* DBQuery.filter
filter(S, q, e, kw) ==
  IF is_frozen(S.Q[q]) THEN Raise(S, QuazyFrozen)
  ELSE FilterKwargs(IF e.t = "absent" THEN S ELSE AddResolved(resolve(S, q, e), q), q, kw)

\* the keyword part of exclude: `self.table_class in None`
ExcludeKwargs(S1) == IF ~Ok(S1) THEN S1 ELSE Raise(S1, TypeError)

\* DBQuery.exclude
exclude(S, q, e, kw) ==
  IF is_frozen(S.Q[q]) THEN Raise(S, QuazyFrozen)
  ELSE ExcludeKwargs(IF e.t = "absent" THEN S ELSE AddInverted(resolve(S, q, e), q))

\* self.sort_list.append(...)
AppendSort(r, q, desc) ==
  IF ~Ok(r.S) THEN r.S
  ELSE [r.S EXCEPT !.Q[q].sort_list =
          Append(@, Snap(r.S, IF desc THEN postfix(r.S, r.val, "DESC") ELSE r.val))]

\* DBQuery.sort_by
sort_by(S, q, e, desc) ==
  IF is_frozen(S.Q[q]) THEN Raise(S, QuazyFrozen)
  ELSE AppendSort(resolve(S, q, e), q, desc)

\* self.groups.append(...)
AppendGroup(r, q) ==
  IF ~Ok(r.S) THEN r.S ELSE [r.S EXCEPT !.Q[q].groups = Append(@, Snap(r.S, r.val))]

\* DBQuery.group_by
group_by(S, q, e) ==
  IF is_frozen(S.Q[q]) THEN Raise(S, QuazyFrozen)
  ELSE AppendGroup(resolve(S, q, e), q)

\* DBQuery.set_window
set_window(S, q, offset, limit) ==
  IF is_frozen(S.Q[q]) THEN Raise(S, QuazyFrozen)
  ELSE [S EXCEPT !.Q[q].window = <<offset, limit>>]

\* DBQuery.__setitem__
setitem(S, q, key, value) ==
  IF key \notin ArgsKeys(S.Q[q].args) THEN Raise(S, QuazyWrongOperation)
  ELSE [S EXCEPT !.Q[q].args = SetArg(@, key, value)]

\* for k, v in subquery.args.items(): ...
RECURSIVE ImportArgs(_, _, _)
ImportArgs(args, sub_name, sub_args) ==
  IF sub_args = <<>> THEN args
  ELSE ImportArgs(SetArg(args,
                         IF StartsWithArg(Head(sub_args).key)
                         THEN Key(Head(sub_args).key.s, <<sub_name>>, Head(sub_args).key.n)
                         ELSE Head(sub_args).key,
                         Head(sub_args).val),
                  sub_name, Tail(sub_args))

DBWithClause(query, not_materialized) ==
  [query |-> query, not_materialized |-> not_materialized]

\* DBQuery.with_query
with_query(S, q, subquery, not_materialized) ==
  [S EXCEPT !.Q[q].with_queries =
              (@ \o S.Q[subquery].with_queries)
                 \o <<DBWithClause(subquery, not_materialized)>>,
            !.Q[q].args = ImportArgs(@, S.Q[subquery].name, S.Q[subquery].args)]

\* self.chained_opts = DBChainedFilter(id_name, next_name, self.arg(start_value))
SetChain(a, q, id_name, next_name) ==
  [a.S EXCEPT !.Q[q].chained_opts =
     [id_name |-> id_name, next_name |-> next_name, sql_value |-> a.val.sql_text]]
ChainFrom(S1, q, id_name, next_name, start_value) ==
  IF ~Ok(S1) THEN S1
  ELSE SetChain(arg(S1, q, start_value, FALSE), q, id_name, next_name)

\* DBQuery.chained
chained(S, q, id_name, next_name, start_value) ==
  IF is_frozen(S.Q[q]) THEN Raise(S, QuazyFrozen)
  ELSE IF S.Q[q].table_class = NoTable THEN Raise(S, QuazyWrongOperation)
  ELSE IF ~IsField(S.Q[q].table_class, id_name) THEN Raise(S, QuazyFieldNameError)
  ELSE IF ~IsField(S.Q[q].table_class, next_name) THEN Raise(S, QuazyFieldNameError)
  ELSE ChainFrom(IF ~S.Q[q].fetch_objects
                 THEN select(S, q, <<id_name, next_name>>, <<>>) ELSE S,
                 q, id_name, next_name, start_value)

\* ------------------------------------------------------------- Translator
RECURSIVE JoinToks(_, _)
JoinToks(parts, sep) ==
  IF parts = <<>> THEN <<>>
  ELSE IF Len(parts) = 1 THEN Head(parts)
  ELSE Head(parts) \o sep \o JoinToks(Tail(parts), sep)

\* join.condition.format(join_alias=join_name)
FormatCondition(condition, join_name) ==
  [i \in 1..Len(condition) |->
     IF condition[i].a = JoinAliasMark THEN [condition[i] EXCEPT !.a = join_name]
     ELSE condition[i]]

\* render.replace(arg_prefix + '_arg_', f'{arg_prefix}_{subquery_name}_arg_')
ReplaceArgPrefix(render, sub_name) ==
  [i \in 1..Len(render) |->
     IF render[i].k = "ph" /\ render[i].s = "_arg_" /\ render[i].a = <<>>
     THEN [render[i] EXCEPT !.a = <<sub_name>>]
     ELSE render[i]]

\* sql.replace("WITH", new)
RECURSIVE ReplaceWith(_, _)
ReplaceWith(sql, new) ==
  IF sql = <<>> THEN <<>>
  ELSE (IF Head(sql) = Kw("WITH") THEN new ELSE <<Head(sql)>>) \o ReplaceWith(Tail(sql), new)

T(S, text) == [S |-> S, text |-> text]

\* fields.append(f'{sql_value(value)} AS "{field}"')
FieldTexts(S, q) ==
  [i \in 1..Len(S.Q[q].fields) |->
     IF S.Q[q].fields[i].name = "*" THEN S.heap[S.Q[q].fields[i].ref].sql_text
     ELSE S.heap[S.Q[q].fields[i].ref].sql_text
            \o <<Kw("AS"), NameTok(<<S.Q[q].fields[i].name>>)>>]

Texts(list) == [i \in 1..Len(list) |-> list[i].sql_text]

\* sources of the FROM clause; a join with a query lands here as well
FromJoins(joins) == SelectSeq(joins, LAMBDA j : j.kind = "SOURCE" \/ j.qry # 0)
SourceTexts(S, joins) ==
  [i \in 1..Len(FromJoins(joins)) |->
     IF FromJoins(joins)[i].kind = "SOURCE"
     THEN IF FromJoins(joins)[i].qry # 0
          THEN <<NameTok(<<S.Q[FromJoins(joins)[i].qry].name>>)>>
          ELSE <<NameTok(<<FromJoins(joins)[i].tbl>>), Kw("AS"),
                 NameTok(FromJoins(joins)[i].alias)>>
     ELSE <<Kw(FromJoins(joins)[i].kind), Kw("JOIN"),
            NameTok(<<S.Q[FromJoins(joins)[i].qry].name>>)>>]
TableJoins(joins) == SelectSeq(joins, LAMBDA j : j.kind # "SOURCE" /\ j.qry = 0)
JoinTexts(joins) ==
  [i \in 1..Len(TableJoins(joins)) |->
     <<Kw(TableJoins(joins)[i].kind), Kw("JOIN"), NameTok(<<TableJoins(joins)[i].tbl>>),
       Kw("AS"), NameTok(TableJoins(joins)[i].alias)>>
       \o (IF TableJoins(joins)[i].condition # <<>>
           THEN <<Kw("ON")>>
                  \o FormatCondition(TableJoins(joins)[i].condition,
                                     TableJoins(joins)[i].alias)
           ELSE <<>>)]

\* for n, field in enumerate(query.fields.values()):
\*     if not field.aggregated: groups.append(f'{n+1}')
\* a DBQueryField in the select list answers `.aggregated` through
\* __getattr__: it registers its join and raises
RECURSIVE InferGroups(_, _, _, _)
InferGroups(S, q, n, acc) ==
  IF n > Len(S.Q[q].fields) THEN [S |-> S, groups |-> acc]
  ELSE IF S.heap[S.Q[q].fields[n].ref].qf
  THEN [S |-> getattr(S, S.heap[S.Q[q].fields[n].ref].query,
                      S.heap[S.Q[q].fields[n].ref].cur, "aggregated").S,
        groups |-> acc]
  ELSE InferGroups(S, q, n + 1,
                   IF S.heap[S.Q[q].fields[n].ref].aggregated THEN acc
                   ELSE Append(acc, <<NumTok(n)>>))

ChainName == <<"_chain">>

RECURSIVE TranslatorSelect(_, _, _, _)

\* f'"{sub.name}" AS [NOT MATERIALIZED] ({render})'
WithBlock(S, sub, text) ==
  <<NameTok(<<S.Q[sub.query].name>>), Kw("AS")>>
    \o (IF sub.not_materialized THEN <<Kw("NOT MATERIALIZED")>> ELSE <<>>)
    \o <<Op("(")>> \o ReplaceArgPrefix(text, S.Q[sub.query].name) \o <<Op(")")>>

\* TranslatorPSQL.with_select
RECURSIVE WithBlocks(_, _, _)
WithBlocksOn(r, with_queries, acc) ==
  WithBlocks(r.S, Tail(with_queries), Append(acc, WithBlock(r.S, Head(with_queries), r.text)))
WithBlocks(S, with_queries, acc) ==
  IF ~Ok(S) \/ with_queries = <<>>
  THEN T(S, <<Kw("WITH")>> \o JoinToks(acc, <<Op(",")>>))
  ELSE WithBlocksOn(TranslatorSelect(S, Head(with_queries).query, 0, FALSE), with_queries, acc)
with_select(S, with_queries) == WithBlocks(S, with_queries, <<>>)

\* the chain: WITH RECURSIVE _chain AS (seed UNION step) SELECT * FROM _chain
ChainedSql(p1, p2) ==
  <<Kw("WITH"), Kw("RECURSIVE"), NameTok(ChainName), Kw("AS"), Op("(")>>
    \o p1.text \o <<Kw("UNION")>> \o p2.text \o <<Op(")")>>
ChainedText(w, p1, p2) ==
  IF ~Ok(p2.S) THEN p2
  ELSE T(p2.S, (IF w.text # <<>> THEN ReplaceWith(w.text, ChainedSql(p1, p2) \o <<Op(",")>>)
                ELSE ChainedSql(p1, p2))
                 \o <<Kw("SELECT"), Op("*"), Kw("FROM"), NameTok(ChainName)>>)
ChainedStep(w, p1, q) ==
  IF ~Ok(p1.S) THEN p1 ELSE ChainedText(w, p1, TranslatorSelect(p1.S, q, 2, TRUE))

\* the statement, clause by clause
Statement(with_text, fields, sources, joins, filters, groups, group_filters, orders, window, is_distinct) ==
  with_text
    \o <<Kw("SELECT")>>
    \o (IF is_distinct THEN <<Kw("DISTINCT")>> ELSE <<>>)
    \o JoinToks(fields, <<Op(",")>>)
    \o (IF sources # <<>> THEN <<Kw("FROM")>> \o sources[1] ELSE <<>>)
    \o JoinToks(joins, <<>>)
    \o (IF Len(sources) > 1
        THEN <<Op(",")>> \o JoinToks(Tail(sources), <<Op(",")>>) ELSE <<>>)
    \o (IF filters # <<>>
        THEN <<Kw("WHERE")>> \o JoinToks(filters, <<Kw("AND")>>) ELSE <<>>)
    \o (IF groups # <<>>
        THEN <<Kw("GROUP BY")>> \o JoinToks(groups, <<Op(",")>>)
               \o (IF group_filters # <<>>
                   THEN <<Kw("HAVING")>> \o JoinToks(group_filters, <<Kw("AND")>>)
                   ELSE <<>>)
        ELSE <<>>)
    \o (IF orders # <<>> THEN <<Kw("ORDER BY")>> \o JoinToks(orders, <<>>) ELSE <<>>)
    \o (IF window[1] # NoWindow THEN <<Kw("OFFSET"), NumTok(window[1])>> ELSE <<>>)
    \o (IF window[2] # NoWindow THEN <<Kw("LIMIT"), NumTok(window[2])>> ELSE <<>>)

GroupedSelect(w, g, S, q, chained_mode) ==
  IF ~Ok(g.S) THEN T(g.S, <<>>)
  ELSE IF S.Q[q].fields = <<>> THEN T(Raise(g.S, QuazyTranslatorException), <<>>)
  ELSE T(g.S, Statement(w.text, FieldTexts(S, q), SourceTexts(S, S.Q[q].joins),
                        \* the joins, with the join on the chain in its recursive step
                        JoinTexts(S.Q[q].joins)
                          \o (IF chained_mode = 2
                              THEN << <<Kw("INNER"), Kw("JOIN"), NameTok(ChainName),
                                        Kw("AS"), NameTok(ChainName), Kw("ON"),
                                        ColTok(<<S.Q[q].table_class>>,
                                               S.Q[q].chained_opts.id_name),
                                        Op("="),
                                        ColTok(ChainName,
                                               S.Q[q].chained_opts.next_name)>> >>
                              ELSE <<>>),
                        \* the filters, with the start of the chain in its seed
                        (IF chained_mode = 1
                         THEN << <<ColTok(<<S.Q[q].table_class>>,
                                          S.Q[q].chained_opts.id_name), Op("=")>>
                                   \o S.Q[q].chained_opts.sql_value >>
                         ELSE <<>>)
                          \o Texts(S.Q[q].filters),
                        g.groups, Texts(S.Q[q].group_filters), Texts(S.Q[q].sort_list),
                        S.Q[q].window, S.Q[q].is_distinct))
AfterWith(w, S, q, chained_mode) ==
  IF ~Ok(w.S) THEN w
  ELSE IF chained_mode = 0 /\ S.Q[q].chained_opts # NoChain
  THEN ChainedStep(w, TranslatorSelect(w.S, q, 1, TRUE), q)
  ELSE \* if not groups and query.has_aggregates: the ordinals of the plain fields
       GroupedSelect(w,
                     IF S.Q[q].groups = <<>> /\ S.Q[q].has_aggregates
                     THEN InferGroups(w.S, q, 1, <<>>)
                     ELSE [S |-> w.S, groups |-> Texts(S.Q[q].groups)],
                     S, q, chained_mode)

\* TranslatorPSQL.select
TranslatorSelect(S, q, chained_mode, is_root) ==
  AfterWith(IF is_root /\ chained_mode = 0 /\ S.Q[q].with_queries # <<>>
            THEN with_select(S, S.Q[q].with_queries) ELSE T(S, <<>>),
            S, q, chained_mode)

\* DBQuery._check_fields
RECURSIVE FillFields(_, _, _)
FillFields(S, q, names) ==
  IF ~Ok(S) \/ names = <<>> THEN S
  ELSE FillFields(StoreResolved(getattr(S, q, scheme(S, q), Head(names)), q, Head(names)),
                  q, Tail(names))

check_fields(S, q) ==
  IF S.Q[q].fields # <<>> THEN S
  ELSE IF ~S.Q[q].fetch_objects THEN Raise(S, QuazyError)
  ELSE FillFields(S, q, DBfields(S.Q[q].table_class))

\* self.frozen_sql = self.db.translator.select(self)
StoreSql(r, q) == IF ~Ok(r.S) THEN r.S ELSE [r.S EXCEPT !.Q[q].frozen_sql = r.text]
Compile(S1, q) == IF ~Ok(S1) THEN S1 ELSE StoreSql(TranslatorSelect(S1, q, 0, TRUE), q)

\* a freeze that compiles again whatever the query's phase
freeze_again(S, q) == Compile(check_fields(S, q), q)
\* DBQuery.freeze
freeze(S, q) ==
  IF is_frozen(S.Q[q]) THEN Raise(S, QuazyFrozen) ELSE Compile(check_fields(S, q), q)

\* DBQuery.__init__ with a table class, _collect_scheme included
NewDBQuery(i, table_class) ==
  [BlankQuery EXCEPT
     !.alive = TRUE, !.name = QName(i), !.table_class = table_class,
     !.fetch_objects = TRUE,
     !.joins = <<[DBJoin("SOURCE", table_class, 0, <<>>) EXCEPT !.alias = <<table_class>>]>>]

\* DBQuery.__copy__: the containers are copied, their elements are not;
\* every other attribute is assigned, the name is made anew
copy(S, q, i) ==
  [S EXCEPT !.Q[i] = [S.Q[q] EXCEPT !.name = QName(i)]]

\* the clone of fetch_aggregate / fetch_count / a slice is dropped on return
Drop(S, S0) ==
  [S EXCEPT !.Q[Scratch] = BlankQuery, !.heap = SubSeq(@, 1, Len(S0.heap))]

\* DBQuery.fetch_one / fetch_all: execute() = _check_fields, then db.select
\* DBFactory.select with a DBQuery compiles it unless it is frozen
Execute(S1, q) ==
  IF ~Ok(S1) THEN S1
  ELSE IF ~is_frozen(S1.Q[q]) THEN TranslatorSelect(S1, q, 0, TRUE).S
  ELSE S1
fetch(S, q) == Execute(check_fields(S, q), q)

\* row = obj.fetch_one(), and the clone goes
FetchClone(S3, S) == IF ~Ok(S3) THEN Drop(S3, S) ELSE Drop(fetch(S3, Scratch), S)
\* obj.select(result=...)
SelectResult(a) ==
  IF is_frozen(a.S.Q[Scratch]) THEN Raise(a.S, QuazyFrozen)
  ELSE StoreField([a.S EXCEPT !.Q[Scratch].has_aggregates = TRUE], Scratch, "result", a.val)
AggregateClone(r, S, function) ==
  IF ~Ok(r.S) THEN Drop(r.S, S)
  ELSE FetchClone(SelectResult(aggregate(r.S, r.val, function)), S)
\* obj.resolve(expr); fetch_count(): obj.count(None) counts DBSQL(self, '*')
ResolveInClone(S2, own, e) ==
  IF e.t = "sel"
  THEN R(IF CurAgg(S2, own.val) THEN [S2 EXCEPT !.Q[Scratch].has_aggregates = TRUE] ELSE S2,
         own.val)
  ELSE IF e.t = "absent" THEN R(S2, DBSQL(Scratch, <<Op("*")>>, FALSE))
  ELSE resolve(S2, Scratch, e)
OnClone(own, S, q, function, e) ==
  IF ~Ok(own.S) THEN own.S
  ELSE \* obj = self.copy(); obj.fields.clear(); obj.fetch_objects = False
       AggregateClone(ResolveInClone([copy(own.S, q, Scratch) EXCEPT
                                        !.Q[Scratch].fields = <<>>,
                                        !.Q[Scratch].fetch_objects = FALSE],
                                     own, e),
                      S, function)

\* DBQuery.fetch_aggregate; expr is a field name, a lambda, or a DBSQL the
\* caller took from the query with q[name]
fetch_aggregate(S, q, function, e) ==
  OnClone(IF e.t = "sel" THEN getitem(S, q, e.name) ELSE R(S, NoValue), S, q, function, e)

\* DBQuery.__getitem__ with a slice
slice(S, q, start, cnt) ==
  FetchClone(set_window(copy(S, q, Scratch), Scratch, start, cnt), S)

\* ----------------------------------------------------------------- inputs
title == Col("", <<"title">>)
amount == Col("", <<"amount">>)

\* lambdas handed to filter / exclude
FilterExprs ==
  <<BinOp(title, "=", IntLit(1)),                           \* x.title == 1
    BinOp(Col("", <<"sender", "name">>), "=", IntLit(1)),                     \* x.sender.name == 1
    BinOp(Col("a", <<"sender", "name">>), "=", IntLit(1)),  \* x('a').sender.name == 1
    BinOp(Col("b", <<"sender", "name">>), "=", IntLit(2)),  \* x('b').sender.name == 2
    BinOp(Agg("sum", amount), ">", IntLit(1)),              \* x.amount.sum > 1
    BinOp(title, "=", Agg("max", amount)),                  \* x.title == x.amount.max
    BinOp(Sel("total"), ">", IntLit(2)),                    \* q['total'] > 2
    BinOp(amount, "=", VarE("n"))>>                         \* x.amount == q.var('n')
ExcludeExprs ==
  <<BinOp(title, "=", IntLit(1)),
    BinOp(Agg("sum", amount), ">", IntLit(1))>>

\* select(*field_names, **fields)
SelectCalls ==
  <<[names |-> <<"title", "amount">>, kw |-> <<>>],
    [names |-> <<"pk">>, kw |-> <<>>],
    [names |-> <<>>, kw |-> <<[name |-> "total", e |-> Agg("sum", amount)]>>],
    [names |-> <<>>, kw |-> <<[name |-> "total", e |-> Agg("sum", Sel("amount"))]>>],
    [names |-> <<>>, kw |-> <<[name |-> "who", e |-> Col("", <<"sender", "name">>)]>>],
    [names |-> <<>>, kw |-> <<[name |-> "label", e |-> Name("hello")]>>]>>

\* filter(**kwargs): the value is a Python value, q.max(...) or q.var(...)
KwCalls ==
  <<[k |-> "title", v |-> IntLit(1)],
    [k |-> "sender", v |-> IntLit(1)],
    [k |-> "amount", v |-> Agg("max", Name("amount"))],
    [k |-> "amount", v |-> VarE("n")]>>

\* sort_by(*fields, desc=...)
SortCalls ==
  <<[e |-> IntLit(1), desc |-> TRUE],
    [e |-> Col("", <<"receiver", "name">>), desc |-> FALSE]>>
GroupExprs == <<Name("title"), Col("", <<"sender", "name">>)>>
\* fetch_sum(expr) / fetch_max(expr) / fetch_count()
FetchCalls ==
  <<[fn |-> "sum", e |-> Name("amount")],
    [fn |-> "max", e |-> Sel("title")],
    [fn |-> "count", e |-> Absent]>>

\* ---------------------------------------------------------------- actions
Alive == {q \in QIds : Q[q].alive}
Free == {q \in QIds : ~Q[q].alive}

DoUpTo(bound, o, q, S) ==
  /\ nops < bound
  /\ Len(S.heap) <= MaxObjs
  /\ Q' = S.Q
  /\ heap' = S.heap
  /\ nops' = nops + 1
  /\ last' = [op |-> o, q |-> q, err |-> S.err]
  /\ UNCHANGED <<chain, conn, mod, schema, related, site, store>>
Do(o, q, S) == DoUpTo(MaxOps, o, q, S)

\* db.query(Task) / Task.query()
NewQuery ==
  /\ Free # {}
  /\ LET i == CHOOSE i \in Free : \A j \in Free : i <= j
     IN Do("query", i, [Cur EXCEPT !.Q[i] = NewDBQuery(i, "task")])

Select ==
  \E q \in Alive, i \in 1..Len(SelectCalls) :
    Do("select", q, select(Cur, q, SelectCalls[i].names, SelectCalls[i].kw))

Filter ==
  \E q \in Alive, i \in 1..Len(FilterExprs) :
    Do("filter", q, filter(Cur, q, FilterExprs[i], <<>>))

\* the keyword value is evaluated by the caller before filter() is entered:
\* a Python value, q.max(...), or the DBSQL an earlier q.var(name) returned
KwValue(S, q, v) ==
  IF v.t = "lit" THEN [S |-> S, o |-> PyVal(v.v)]
  ELSE IF v.t = "var"
  THEN [S |-> S, o |-> ExprVal(DBSQL(q, place_arg(VarKey(v.name)), FALSE))]
  ELSE Operand(DBQuery_aggregate(S, q, v.fn, v.of))

\* filter(k=v) / exclude(k=v) with the value the caller built
filter_by(a, q, k) == filter(a.S, q, Absent, <<[k |-> k, v |-> a.o]>>)
exclude_by(a, q, k) == exclude(a.S, q, Absent, <<[k |-> k, v |-> a.o]>>)

FilterBy ==
  \E q \in Alive, i \in 1..Len(KwCalls) :
    /\ KwCalls[i].v.t = "var" => VarKey(KwCalls[i].v.name) \in ArgsKeys(Q[q].args)
    /\ Do("filter", q, filter_by(KwValue(Cur, q, KwCalls[i].v), q, KwCalls[i].k))

Exclude ==
  \E q \in Alive, i \in 1..Len(ExcludeExprs) :
    Do("exclude", q, exclude(Cur, q, ExcludeExprs[i], <<>>))

ExcludeBy ==
  \E q \in Alive :
    Do("exclude", q, exclude_by(KwValue(Cur, q, Agg("max", Name("amount"))), q, "amount"))

SortBy ==
  \E q \in Alive, i \in 1..Len(SortCalls) :
    Do("sort_by", q, sort_by(Cur, q, SortCalls[i].e, SortCalls[i].desc))

GroupBy ==
  \E q \in Alive, i \in 1..Len(GroupExprs) :
    Do("group_by", q, group_by(Cur, q, GroupExprs[i]))

SetWindow ==
  \E q \in Alive :
    Do("set_window", q, set_window(Cur, q, 1, NoWindow))

WithQuery ==
  \E q \in Alive, sub \in Alive :
    /\ sub # q
    /\ Do("with_query", q, with_query(Cur, q, sub, FALSE))

Chained ==
  \E q \in Alive, v \in Values :
    Do("chained", q, chained(Cur, q, "id", "amount", v))

DefineVar ==
  \E q \in Alive, name \in {"n"}, v \in {None, 1} :
    Do("var", q, var(Cur, q, name, v).S)

SetItem ==
  \E q \in Alive, name \in {"n"}, v \in Values :
    Do("setitem", q, setitem(Cur, q, VarKey(name), v))

Freeze ==
  \E q \in Alive : Do("freeze", q, freeze(Cur, q))

Copy ==
  /\ Free # {}
  /\ \E q \in Alive :
       LET i == CHOOSE i \in Free : \A j \in Free : i <= j
       IN Do("copy", q, copy(Cur, q, i))

FetchAggregate ==
  \E q \in Alive, i \in 1..Len(FetchCalls) :
    Do("fetch_aggregate", q, fetch_aggregate(Cur, q, FetchCalls[i].fn, FetchCalls[i].e))

Slice ==
  \E q \in Alive :
    Do("slice", q, slice(Cur, q, 0, 1))

Init ==
  /\ Q = [i \in 0..MaxQueries |-> IF i = 1 THEN NewDBQuery(1, "task") ELSE BlankQuery]
  /\ heap = <<>>
  /\ nops = 0
  /\ last = [op |-> "query", q |-> 1, err |-> NoErr]
  /\ chain = [pc |-> "idle", tbl |-> <<>>, seed |-> None, work |-> <<>>, out |-> <<>>,
              steps |-> 0]
  /\ conn = [pending |-> <<>>, committed |-> {}, raised |-> {}, writes |-> 0]
  /\ mod = [tables |-> <<>>, err |-> NoErr, binds |-> 0]
  /\ schema = [pc |-> "idle", T |-> <<>>, state |-> <<>>, loaded |-> <<>>]
  /\ related = [pc |-> "idle", commented |-> {}, watched |-> {}, result |-> {}]
  /\ site = [queries |-> 0, dicts |-> <<>>,
             pc |-> [c \in 1..2 |-> "out"], obj |-> [c \in 1..2 |-> 0],
             entries |-> [c \in 1..2 |-> 0], ran |-> [c \in 1..2 |-> 0],
             used |-> [c \in 1..2 |-> None], err |-> [c \in 1..2 |-> NoErr]]
  /\ store = [translator |-> "", item |-> "none", touched |-> FALSE,
              rows |-> {}, watchers |-> {}, sub_rows |-> {}, links |-> {},
              deleted |-> {}, inserted |-> {}, updates |-> 0, err |-> NoErr]

Next ==
  \/ NewQuery \/ Select \/ Filter \/ FilterBy \/ Exclude \/ ExcludeBy
  \/ SortBy \/ GroupBy \/ SetWindow \/ WithQuery \/ Chained
  \/ DefineVar \/ SetItem \/ Freeze \/ Copy \/ FetchAggregate \/ Slice

Spec == Init /\ [][Next]_vars

\* ------------------------------------------------- the chained statement
\* What the statement of a chained query selects, on a table whose rows are
\* <id_name, next_name> pairs: tbl[i] is the next value of the row with id i,
\* 0 is NULL and MaxRows + 1 is an id no row has.
\*   WITH RECURSIVE "_chain" AS ({sql_part1} UNION {sql_part2})
\*   SELECT * FROM "_chain"

\* sql_part1: ... WHERE "table"."id_name" = {start value}
AnchorRows(tbl, seed) ==
  SelectSeq([i \in 1..Len(tbl) |-> [id |-> i, next |-> tbl[i]]], LAMBDA r : r.id = seed)

\* a join that goes from the id of a chain row to the next of a table row
JoinRowsBackwards(tbl, work) ==
  SelectSeq([i \in 1..Len(tbl) |-> [id |-> i, next |-> tbl[i]]],
            LAMBDA r : \E j \in 1..Len(work) : r.next = work[j].id)
\* sql_part2: ... INNER JOIN "_chain" ON "table"."id_name" = "_chain"."next_name"
JoinRows(tbl, work) ==
  SelectSeq([i \in 1..Len(tbl) |-> [id |-> i, next |-> tbl[i]]],
            LAMBDA r : \E j \in 1..Len(work) : r.id = work[j].next)

\* UNION ALL keeps every row of the step
UnionAllRows(out, rows) == rows
\* UNION keeps the rows of the step that no earlier step returned
UnionRows(out, rows) ==
  SelectSeq(rows, LAMBDA r : \A j \in 1..Len(out) : out[j] # r)

\* the anchor branch fills the result and the working table
ChainExecute ==
  /\ chain.pc = "idle"
  /\ \E tbl \in [1..MaxRows -> 0..(MaxRows + 1)], seed \in 0..MaxRows :
       chain' = [pc |-> "recursing", tbl |-> tbl, seed |-> seed,
                 work |-> AnchorRows(tbl, seed), out |-> AnchorRows(tbl, seed),
                 steps |-> 0]
  /\ UNCHANGED <<Q, heap, nops, last, conn, mod, schema, related, site, store>>

\* the recursive branch runs on the working table until it is empty
ChainStep ==
  /\ chain.pc = "recursing"
  /\ chain.work # <<>>
  /\ chain.steps <= MaxRows
  /\ chain' = [chain EXCEPT
                 !.work = UnionRows(chain.out, JoinRows(chain.tbl, chain.work)),
                 !.out = @ \o UnionRows(chain.out, JoinRows(chain.tbl, chain.work)),
                 !.steps = @ + 1]
  /\ UNCHANGED <<Q, heap, nops, last, conn, mod, schema, related, site, store>>

\* SELECT * FROM "_chain"
ChainFetch ==
  /\ chain.pc = "recursing"
  /\ chain.work = <<>>
  /\ chain' = [chain EXCEPT !.pc = "done"]
  /\ UNCHANGED <<Q, heap, nops, last, conn, mod, schema, related, site, store>>

NextChain == ChainExecute \/ ChainStep \/ ChainFetch

\* the database runs a statement it was given to its end
SpecChain == Init /\ [][NextChain]_vars /\ WF_vars(NextChain)

\* -------------------------------------------------------- multi-step writes
\* DBFactory.insert of an item with `rows` sub-rows, on one cursor: the
\* INSERT of the item, then insert(row, _curr=curr) for each sub-row.  The
\* insert of sub-row `missed` finds a required field without a value and
\* raises QuazyMissedField before it executes anything (0: no row does).
insert(w, rows, missed) ==
  [i \in 1..(IF missed = 0 THEN rows + 1 ELSE missed) |-> [write |-> w, step |-> i - 1]]

\* PsycopgConnection.cursor:
\*     with self.connection().cursor(binary=True) as curr:
\*         yield curr
\*     if not read_only:
\*         self.conn.commit()
\* (DBFactory.insert asks for it with read_only=False).  An exception in the
\* body leaves through the yield: the cursor is closed, the commit is not
\* reached, and self.conn stays open as it is, to be used by the next call
cursor(c, executed, raises) ==
  IF raises
  THEN [c EXCEPT !.pending = @ \o executed]
  ELSE [c EXCEPT !.pending = <<>>,
                 !.committed = @ \cup {(c.pending \o executed)[i] :
                                         i \in 1..Len(c.pending \o executed)}]

\* db.insert(item), the item having no, one or two sub-rows
Insert ==
  /\ conn.writes < MaxWrites
  /\ \E rows \in 0..2, missed \in 0..2 :
       /\ missed <= rows
       /\ conn' = [cursor(conn, insert(conn.writes + 1, rows, missed), missed # 0)
                     EXCEPT !.writes = @ + 1,
                            !.raised = IF missed # 0 THEN @ \cup {conn.writes + 1} ELSE @]
  /\ UNCHANGED <<Q, heap, nops, last, chain, mod, schema, related, site, store>>

NextWrites == Insert

SpecWrites == Init /\ [][NextWrites]_vars

\* ------------------------------------------------------ tables of a module
\* A python dict with records that carry their key in `name`: d[r.name] = r
Put(d, r) ==
  IF \E i \in 1..Len(d) : d[i].name = r.name
  THEN [i \in 1..Len(d) |-> IF d[i].name = r.name THEN r ELSE d[i]]
  ELSE Append(d, r)

\* name in d
Has(d, n) == \E i \in 1..Len(d) : d[i].name = n

\* d[name]
Get(d, n) == d[CHOOSE i \in 1..Len(d) : d[i].name = n]

\* d.update(e)
RECURSIVE Update(_, _)
Update(d, e) == IF e = <<>> THEN d ELSE Update(Put(d, Head(e)), Tail(e))

\* DBField() prepared for an annotation `name: meta[target]`; `type` and
\* `ref` are set when the types are resolved
DBField(name, pk, meta, target) ==
  [name |-> name, pk |-> pk, ref |-> FALSE, type |-> "", meta |-> meta, target |-> target,
   cid |-> FALSE, body |-> FALSE, property |-> FALSE, required |-> TRUE,
   indexed |-> FALSE, unique |-> FALSE]

\* DBManyField / DBManyToManyField
DBManyField(name, foreign_table, foreign_field) ==
  [name |-> name, foreign_table |-> foreign_table, foreign_field |-> foreign_field,
   middle_table |-> ""]

\* MetaTable.collect_fields: the fields of the bases, then the annotated
\* fields of the class, then a field `id` when no annotated field of the
\* class itself is flagged pk
collect_fields(bases_fields, annotations) ==
  IF \E i \in 1..Len(annotations) : annotations[i].pk
  THEN [fields |-> Update(bases_fields, annotations),
        pk |-> annotations[CHOOSE i \in 1..Len(annotations) :
                             /\ annotations[i].pk
                             /\ \A j \in (i + 1)..Len(annotations) : ~annotations[j].pk].name]
  ELSE [fields |-> Put(Update(bases_fields, annotations),
                       [DBField("id", TRUE, "", "int") EXCEPT !.type = "int"]),
        pk |-> "id"]

\* MetaTable.__new__: the class object with its DB
MetaTable(qualname, table, owner, snake, bases_fields, annotations) ==
  [name |-> qualname, table |-> table, owner |-> owner, snake_name |-> snake,
   fields |-> collect_fields(bases_fields, annotations).fields,
   pk |-> collect_fields(bases_fields, annotations).pk,
   many_fields |-> <<>>, many_to_many_fields |-> <<>>, subtables |-> <<>>,
   in_module |-> owner = ""]

TableNames == {"a", "b"}

Declared(n) == Has(mod.tables, n)

\* The body of `class n(DBTable)`: up to two fields flagged pk, a foreign key
\* to the other table, an attribute called like the collection of the other
\* table (a Many, a ManyToMany or a plain column), a plain column `items`
Annotations(n, pks, fk, rel, items) ==
  SubSeq(<<DBField("code", TRUE, "", "str"), DBField("key", TRUE, "", "str")>>, 1, pks)
  \o (IF fk THEN <<DBField(CHOOSE o \in TableNames : o # n, FALSE, "",
                            CHOOSE o \in TableNames : o # n)>>
      ELSE <<>>)
  \o (IF rel = "none" THEN <<>>
      ELSE <<DBField((CHOOSE o \in TableNames : o # n) \o "s", FALSE,
                     IF rel = "str" THEN "" ELSE rel,
                     IF rel = "str" THEN "str" ELSE CHOOSE o \in TableNames : o # n)>>)
  \o (IF items THEN <<DBField("items", FALSE, "", "str")>> ELSE <<>>)

\* class Item(DBTable) in the body of class n, with a column `items` or without
Item(n, items) ==
  MetaTable(n \o ".item", n \o "_item", n, "items", <<>>,
            IF items THEN <<DBField("items", FALSE, "", "str")>> ELSE <<>>)

\* class n(base): ... with, when nested # "none", a class Item(DBTable) in its
\* body.  Python creates the nested class first; MetaTable.__new__ raises for
\* it when its snake name `items` is one of its own fields.
Declare ==
  \E n \in TableNames, pks \in 0..2, fk \in BOOLEAN, rel \in {"none", "Many", "ManyToMany", "str"},
     items \in BOOLEAN, nested \in {"none", "plain", "items"}, base \in TableNames \cup {""} :
    /\ ~Declared(n) /\ mod.binds = 0
    \* a base table has plain columns only
    /\ base # "" => /\ Declared(base)
                    /\ \A i \in 1..Len(Get(mod.tables, base).fields) :
                         /\ Get(mod.tables, base).fields[i].meta = ""
                         /\ Get(mod.tables, base).fields[i].target \notin TableNames
    /\ n # "a" => ~items /\ nested = "none"
    \* the class has its keys, or its relations, or its nested table
    /\ pks # 0 => ~fk /\ rel = "none" /\ ~items /\ nested = "none"
    /\ items \/ nested # "none" => ~fk /\ rel = "none"
    /\ mod' = IF nested # "none" /\ Has(Item(n, nested = "items").fields, "items")
              THEN [mod EXCEPT !.err = "QuazyFieldNameError"]
              ELSE [mod EXCEPT
                      !.err = NoErr,
                      !.tables =
                        (IF nested = "none" THEN @ ELSE Append(@, Item(n, nested = "items")))
                        \o <<MetaTable(n, n, "", n \o "s",
                                       IF base = "" THEN <<>> ELSE Get(mod.tables, base).fields,
                                       Annotations(n, pks, fk, rel, items))>>]
    /\ UNCHANGED <<Q, heap, nops, last, chain, conn, schema, related, site, store>>

\* DBTable.resolve_type for every field of DB.fields: a Many or ManyToMany
\* annotation moves from DB.fields to DB.many_fields or
\* DB.many_to_many_fields, a table type makes the field a reference.  Then
\* the owner of a nested table becomes a required reference named after the
\* owner's table.
resolve_types(t) ==
  [t EXCEPT
     !.fields =
       Update(SelectSeq([i \in 1..Len(t.fields) |->
                           IF t.fields[i].target \in TableNames
                           THEN [t.fields[i] EXCEPT !.ref = TRUE, !.type = t.fields[i].target]
                           ELSE [t.fields[i] EXCEPT !.type = t.fields[i].target]],
                        LAMBDA f : f.meta = ""),
              IF t.owner = "" THEN <<>>
              ELSE <<[DBField(t.owner, FALSE, "", t.owner) EXCEPT !.ref = TRUE, !.type = t.owner]>>),
     !.many_fields =
       Update(@, [i \in 1..Len(SelectSeq(t.fields, LAMBDA f : f.meta = "Many")) |->
                    DBManyField(SelectSeq(t.fields, LAMBDA f : f.meta = "Many")[i].name,
                                SelectSeq(t.fields, LAMBDA f : f.meta = "Many")[i].target, "")]),
     !.many_to_many_fields =
       Update(@, [i \in 1..Len(SelectSeq(t.fields, LAMBDA f : f.meta = "ManyToMany")) |->
                    DBManyField(SelectSeq(t.fields, LAMBDA f : f.meta = "ManyToMany")[i].name,
                                SelectSeq(t.fields, LAMBDA f : f.meta = "ManyToMany")[i].target, "")])]

\* resolve_types_many, "eval refs": every reference field from position i on
\* is filed in the many_fields of its target under the snake name of cls
RECURSIVE EvalRefs(_, _, _)
EvalRefs(ts, n, i) ==
  IF i > Len(Get(ts, n).fields) THEN [tables |-> ts, err |-> NoErr]
  ELSE IF ~Get(ts, n).fields[i].ref THEN EvalRefs(ts, n, i + 1)
  ELSE IF Has(Get(ts, Get(ts, n).fields[i].type).many_fields, Get(ts, n).snake_name)
          /\ Get(Get(ts, Get(ts, n).fields[i].type).many_fields,
                 Get(ts, n).snake_name).foreign_table # n
  THEN [tables |-> ts, err |-> "QuazyFieldNameError"]
  ELSE EvalRefs(Put(ts, [Get(ts, Get(ts, n).fields[i].type) EXCEPT
                           !.many_fields = Put(@, DBManyField(Get(ts, n).snake_name, n,
                                                              Get(ts, n).fields[i].name))]),
                n, i + 1)

\* resolve_types_many, "check Many fields connected"
ManyConnected(ts, n) ==
  \A i \in 1..Len(Get(ts, n).many_fields) :
    /\ Get(ts, n).many_fields[i].foreign_field # ""
    /\ Has(Get(ts, Get(ts, n).many_fields[i].foreign_table).fields,
           Get(ts, n).many_fields[i].foreign_field)

\* the class of the junction table that resolve_types_many builds for the
\* ManyToMany field `name` of cls: two indexed references and its own id
MiddleTable(cls, name, foreign_table) ==
  [resolve_types(MetaTable(cls.table \o "_" \o name, cls.table \o "_" \o name, "",
                           cls.table \o "_" \o name \o "s", <<>>,
                           <<DBField(foreign_table, FALSE, "", foreign_table),
                             DBField(cls.table, FALSE, "", cls.name)>>))
     EXCEPT !.in_module = FALSE]

\* resolve_types_many, "check and connect ManyToMany fields", from position i
RECURSIVE ConnectManyToMany(_, _, _)
ConnectManyToMany(ts, n, i) ==
  IF i > Len(Get(ts, n).many_to_many_fields) THEN [tables |-> ts, err |-> NoErr]
  ELSE IF Get(ts, n).many_to_many_fields[i].middle_table # "" THEN ConnectManyToMany(ts, n, i + 1)
  ELSE LET cls == Get(ts, n)
           field == cls.many_to_many_fields[i]
           rev_name == IF field.foreign_field # "" THEN field.foreign_field ELSE cls.snake_name
           TableClass == MiddleTable(cls, field.name, field.foreign_table)
           \* add_middle_table(TableClass); field.middle_table = TableClass;
           \* field.foreign_field = rev_name
           bound == Append(Put(ts, [cls EXCEPT !.many_to_many_fields[i] =
                                      [field EXCEPT !.middle_table = TableClass.name,
                                                    !.foreign_field = rev_name]]),
                           TableClass)
           far == Get(bound, field.foreign_table)
       IN IF Has(Get(ts, field.foreign_table).many_to_many_fields, rev_name)
             /\ Get(Get(ts, field.foreign_table).many_to_many_fields, rev_name).foreign_table # n
          THEN [tables |-> ts, err |-> "QuazyFieldNameError"]
          ELSE IF ~Has(far.many_to_many_fields, rev_name)
          THEN [tables |-> bound, err |-> "KeyError"]
          ELSE ConnectManyToMany(
                 Put(bound, [far EXCEPT !.many_to_many_fields =
                               Put(@, [Get(far.many_to_many_fields, rev_name) EXCEPT
                                         !.middle_table = TableClass.name,
                                         !.foreign_field = field.name])]),
                 n, i + 1)

\* resolve_types_many after "eval refs" left r
ConnectFields(r, n) ==
  IF ~Ok(r) THEN r
  ELSE IF ~ManyConnected(r.tables, n) THEN [tables |-> r.tables, err |-> "QuazyFieldTypeError"]
  ELSE ConnectManyToMany(r.tables, n, 1)

\* cls.resolve_types_many(add_middle_table)
resolve_types_many(ts, n) == ConnectFields(EvalRefs(ts, n, 1), n)

\* bind_module: `for table in tables: table.resolve_types_many(...)`, over
\* the tables the module had when the call began: r is what the table at
\* position i left, an exception ends the loop
RECURSIVE ResolveMany(_, _, _)
ResolveMany(r, names, i) ==
  IF ~Ok(r) \/ i >= Len(names) THEN r
  ELSE ResolveMany(resolve_types_many(r.tables, names[i + 1]), names, i + 1)

\* db.bind_module(): resolve_types of every table of the module (a table
\* resolves the tables nested in it), then resolve_types_many of every table
BindModule ==
  /\ mod.binds < MaxBinds
  /\ \A n \in TableNames : Declared(n)
  /\ mod' = ResolveMany([tables |-> [i \in 1..Len(mod.tables) |->
                                      IF mod.tables[i].in_module \/ mod.tables[i].owner # ""
                                      THEN resolve_types(mod.tables[i]) ELSE mod.tables[i]],
                         err |-> NoErr],
                        [i \in 1..Len(SelectSeq(mod.tables, LAMBDA t : t.in_module)) |->
                           SelectSeq(mod.tables, LAMBDA t : t.in_module)[i].name],
                        0)
             @@ [binds |-> mod.binds + 1]
  /\ UNCHANGED <<Q, heap, nops, last, chain, conn, schema, related, site, store>>

NextTables == Declare \/ BindModule

SpecTables == Init /\ [][NextTables]_vars

\* -------------------------------------------------- queries over relations
Tasks == 1..2

\* the rows of a table: Task 1 and Task 2, one User, a Comment for each task
\* of `commented`, a junction row to the user for each task of `watched`
TableRows(tbl, commented, watched) ==
  IF tbl = "task" THEN {[id |-> i, task |-> 0, user |-> 0] : i \in Tasks}
  ELSE IF tbl = "user" THEN {[id |-> 1, task |-> 0, user |-> 0]}
  ELSE IF tbl = "comment" THEN {[id |-> i, task |-> i, user |-> 0] : i \in commented}
  ELSE {[id |-> i, task |-> i, user |-> 1] : i \in watched}

\* the rows of the joined table that satisfy the condition of the join for
\* row r: "left alias".column = "join alias".column, never true for a NULL
Matches(r, join, commented, watched) ==
  {t \in TableRows(join.tbl, commented, watched) :
     /\ r[join.condition[1].a][join.condition[1].s] # 0
     /\ r[join.condition[1].a][join.condition[1].s] = t[join.condition[3].s]}

\* `kind JOIN table AS alias ON condition` applied to the rows joined so far:
\* a LEFT join keeps a row without a match, with NULLs for the joined table
JoinStep(joined, join, commented, watched) ==
  UNION {IF Matches(r, join, commented, watched) = {} /\ join.kind = "LEFT"
         THEN {(join.alias :> [id |-> 0, task |-> 0, user |-> 0]) @@ r}
         ELSE {(join.alias :> t) @@ r : t \in Matches(r, join, commented, watched)} :
         r \in joined}

\* FROM source, then the joins in the order of DBQuery.joins
RECURSIVE RowsOfJoins(_, _, _, _)
RowsOfJoins(joined, joins, commented, watched) ==
  IF joins = <<>> THEN joined
  ELSE RowsOfJoins(IF Head(joins).kind = "SOURCE"
                 THEN {(Head(joins).alias :> t) :
                         t \in TableRows(Head(joins).tbl, commented, watched)}
                 ELSE JoinStep(joined, Head(joins), commented, watched),
                 Tail(joins), commented, watched)

\* Task.select(who="<relation>.<column>") / q.select(who=lambda x: x.<relation>.<column>)
RelatedCalls ==
  <<[names |-> <<>>, kw |-> <<[name |-> "note", e |-> Col("", <<"comments", "text">>)]>>],
    [names |-> <<>>, kw |-> <<[name |-> "who", e |-> Col("", <<"watchers", "name">>)]>>],
    [names |-> <<"title">>, kw |-> <<>>]>>

SelectRelated ==
  \E i \in 1..Len(RelatedCalls) :
    Do("select", 1, select(Cur, 1, RelatedCalls[i].names, RelatedCalls[i].kw))

\* q.fetch_all() over some rows of the tables
FetchRelated ==
  /\ related.pc = "idle" /\ nops > 0
  /\ \E commented \in SUBSET Tasks, watched \in SUBSET Tasks :
       related' = [pc |-> "fetched", commented |-> commented, watched |-> watched,
                result |-> RowsOfJoins({}, Q[1].joins, commented, watched)]
  /\ UNCHANGED <<Q, heap, nops, last, chain, conn, mod, schema, site, store>>

NextRelated == SelectRelated \/ FetchRelated

SpecRelated == Init /\ [][NextRelated]_vars

\* ------------------------------------------------------- schema dump / load
KNOWN_TYPES ==
  {"int", "str", "float", "bool", "bytes", "datetime", "timedelta", "date", "time",
   "Decimal", "UUID", "dict"}

IntEnums == {"Color"}   \* class Color(IntEnum)
StrEnums == {"Mode"}    \* class Mode(StrEnum)

TYPE_MAP == [n \in KNOWN_TYPES \cup {"IntEnum", "StrEnum"} |->
               IF n = "IntEnum" THEN "int" ELSE IF n = "StrEnum" THEN "str" ELSE n]

db_type_name(t) ==
  IF t \in KNOWN_TYPES THEN t ELSE IF t \in IntEnums THEN "int" ELSE "str"

db_type_by_name(name) == IF name \in DOMAIN TYPE_MAP THEN TYPE_MAP[name] ELSE name

\* the flags DBField._dump_schema writes when they are set
FlagNames == {"pk", "cid", "ref", "body", "property", "required", "indexed", "unique"}

\* DBField._dump_schema: a dict with name, column, type and the set flags
DBField_dump_schema(f) ==
  [name |-> f.name, column |-> f.name,
   type |-> IF ~f.ref THEN db_type_name(f.type) ELSE f.type,
   flags |-> {c \in FlagNames : f[c]}]

\* a DBField.__init__ that leaves `required` as the dataclass declares it
DBField_load_schema_keeps_default(state) ==
  [DBField(state.name, "pk" \in state.flags, "", db_type_by_name(state.type)) EXCEPT
     !.cid = "cid" \in state.flags, !.body = "body" \in state.flags,
     !.property = "property" \in state.flags, !.indexed = "indexed" \in state.flags,
     !.unique = "unique" \in state.flags, !.ref = "ref" \in state.flags]

\* DBField._load_schema: DBField(**state), then ref and required as the dict
\* has them (False when absent); the type waits in _pre_type, the annotation
\* the loaded class gets for the field
DBField_load_schema(state) ==
  [DBField(state.name, "pk" \in state.flags, "", db_type_by_name(state.type)) EXCEPT
     !.cid = "cid" \in state.flags, !.body = "body" \in state.flags,
     !.property = "property" \in state.flags, !.indexed = "indexed" \in state.flags,
     !.unique = "unique" \in state.flags, !.ref = "ref" \in state.flags,
     !.required = "required" \in state.flags]

\* DBTable._dump_schema
DBTable_dump_schema(cls) ==
  [qualname |-> cls.name, table |-> cls.table,
   fields |-> [i \in 1..Len(cls.fields) |-> DBField_dump_schema(cls.fields[i])]]

\* DBTable._load_schema: a new class from the loaded fields, DB.pk the last
\* field flagged pk
DBTable_load_schema(state) ==
  [MetaTable(state.qualname, state.table, "", state.qualname \o "s", <<>>,
             [i \in 1..Len(state.fields) |-> DBField_load_schema(state.fields[i])])
     EXCEPT !.pk = state.fields[CHOOSE i \in 1..Len(state.fields) :
                                  /\ "pk" \in state.fields[i].flags
                                  /\ \A j \in (i + 1)..Len(state.fields) :
                                       "pk" \notin state.fields[j].flags].name]

\* The fields a resolved table may have: a key, enumerations, the body, a
\* property, a reference, the discriminator, a unique column
FieldPool ==
  <<[DBField("code", TRUE, "", "str") EXCEPT !.type = "str"],
    [DBField("kind", FALSE, "", "Color") EXCEPT !.type = "Color", !.indexed = TRUE],
    [DBField("mode", FALSE, "", "Mode") EXCEPT !.type = "Mode", !.required = FALSE],
    [DBField("body", FALSE, "", "dict") EXCEPT !.type = "dict", !.body = TRUE],
    [DBField("size", FALSE, "", "int") EXCEPT !.type = "int", !.property = TRUE,
                                             !.required = FALSE],
    [DBField("b", FALSE, "", "b") EXCEPT !.type = "b", !.ref = TRUE],
    [DBField("cid", FALSE, "", "str") EXCEPT !.type = "str", !.cid = TRUE],
    [DBField("name", FALSE, "", "str") EXCEPT !.type = "str", !.unique = TRUE]>>

\* T._dump_schema() for a table T with some fields of the pool
DumpSchema ==
  /\ schema.pc = "idle"
  /\ \E chosen \in SUBSET (1..Len(FieldPool)) :
       schema' = [pc |-> "dumped",
                  T |-> <<MetaTable("a", "a", "", "as", <<>>,
                                    SelectSeq(FieldPool, LAMBDA f :
                                      \E i \in chosen : FieldPool[i] = f))>>,
                  state |-> <<DBTable_dump_schema(
                                MetaTable("a", "a", "", "as", <<>>,
                                          SelectSeq(FieldPool, LAMBDA f :
                                            \E i \in chosen : FieldPool[i] = f)))>>,
                  loaded |-> <<>>]
  /\ UNCHANGED <<Q, heap, nops, last, chain, conn, mod, related, site, store>>

\* DBTable._load_schema(state)
LoadSchema ==
  /\ schema.pc = "dumped"
  /\ schema' = [schema EXCEPT !.pc = "loaded",
                              !.loaded = <<DBTable_load_schema(schema.state[1])>>]
  /\ UNCHANGED <<Q, heap, nops, last, chain, conn, mod, related, site, store>>

NextSchema == DumpSchema \/ LoadSchema

SpecSchema == Init /\ [][NextSchema]_vars

\* ================================================================= claims
\* what a builder call may change in a query: the clause lists, the join map,
\* the argument table and the stored SQL text, the select list with the
\* objects it holds
SelectList(query, h) ==
  [i \in 1..Len(query.fields) |->
     [name |-> query.fields[i].name,
      sql_text |-> h[query.fields[i].ref].sql_text,
      aggregated |-> h[query.fields[i].ref].aggregated]]
ClauseState(query, h) ==
  <<SelectList(query, h), query.joins, query.sort_list, query.filters, query.groups,
    query.group_filters, query.with_queries, query.args, query.frozen_sql,
    query.window, query.chained_opts>>

Mutators == {"filter", "select", "group_by", "sort_by", "set_window", "with_query", "chained"}

\* C1: once freeze() has succeeded, every later filter, select, group_by,
\* sort_by, set_window, with_query or chained call on that query raises
\* QuazyFrozen and leaves its clause lists, join map, argument table and
\* stored SQL text as they were.
C1_FrozenRejectsMutation ==
  [][\A q \in QIds :
       (is_frozen(Q[q]) /\ last'.q = q /\ last'.op \in Mutators)
         => (/\ last'.err = QuazyFrozen
             /\ ClauseState(Q'[q], heap') = ClauseState(Q[q], heap))]_vars

\* C2: within one query a value that is already bound reuses its placeholder,
\* and after any sequence of bindings the number of generated (_arg_N) keys
\* equals the number of distinct values bound (bound: the values handed to
\* DBQuery.arg so far).
GeneratedKeys(args) == {k \in ArgsKeys(args) : StartsWithArg(k)}
C2_OneKeyPerBoundValue ==
  \A q \in QIds :
    Q[q].alive => Cardinality(GeneratedKeys(Q[q].args)) = Cardinality(Q[q].bound)

\* the texts of the expressions a query holds, and its stored statement
ExprTexts(query, h) ==
  {h[query.fields[i].ref].sql_text : i \in 1..Len(query.fields)}
    \cup {query.filters[i].sql_text : i \in 1..Len(query.filters)}
    \cup {query.group_filters[i].sql_text : i \in 1..Len(query.group_filters)}
    \cup {query.groups[i].sql_text : i \in 1..Len(query.groups)}
    \cup {query.sort_list[i].sql_text : i \in 1..Len(query.sort_list)}
    \cup {query.chained_opts.sql_value}

\* C3: no literal value supplied by the caller is written into expression or
\* statement text; a value appears only as a placeholder naming a key of the
\* query's argument table.
C3_ValuesOnlyAsPlaceholders ==
  \A q \in QIds :
    Q[q].alive =>
      \A t \in ExprTexts(Q[q], heap) \cup {Q[q].frozen_sql} :
        \A i \in 1..Len(t) :
          /\ t[i].k # "lit"
          /\ t[i].k = "ph" => Key(t[i].s, t[i].a, t[i].n) \in ArgsKeys(Q[q].args)

RefFields == {"sender", "receiver"}
JoinsAt(joins, alias) == {i \in 1..Len(joins) : joins[i].alias = alias}
Mentions(text, alias) == \E i \in 1..Len(text) : text[i].k = "col" /\ text[i].a = alias

\* C4: resolving Task.F.<column of User> for a required reference F registers
\* exactly one INNER join, filed under the alias fixed by (Task, F); any later
\* access of the path reuses that alias and the join map gains no further
\* entry for it.
C4_OneInnerJoinPerReference ==
  \A q \in QIds : \A F \in RefFields :
    Q[q].alive =>
      LET A == <<"task", "__", F, "s">>
          at == JoinsAt(Q[q].joins, A)
      IN /\ Cardinality(at) <= 1
         /\ (\E t \in ExprTexts(Q[q], heap) : Mentions(t, A)) => Cardinality(at) = 1
         /\ \A i \in at : Q[q].joins[i].kind = "INNER" /\ Q[q].joins[i].tbl = "user"
         /\ Cardinality({i \in 1..Len(Q[q].joins) : Q[q].joins[i].tbl = "user"})
              <= Cardinality(RefFields)
\* x.sender.name has been resolved twice in one query
C4_SamePathTwice ==
  \E q \in QIds :
    /\ Q[q].alive
    /\ Len(Q[q].filters) >= 2
    /\ \A i \in 1..2 : Mentions(Q[q].filters[i].sql_text, <<"task", "__", "sender", "s">>)
    /\ Cardinality(JoinsAt(Q[q].joins, <<"task", "__", "sender", "s">>)) = 1

SubCursorAliases == {<<"task", "_", "a">>, <<"task", "_", "b">>}

\* C5: a foreign key reached through two different source aliases in one query
\* gets two distinct joins, each with an ON condition naming its own source
\* alias.  (The sub-cursors x('a'), x('b') are entered in the join map when
\* x('a').sender.name, x('b').sender.name are resolved.)
C5_JoinPerSourceAlias ==
  \A q \in QIds : \A s \in SubCursorAliases :
    (Q[q].alive /\ s \in JoinAliases(Q[q].joins)) =>
      \E i \in 1..Len(Q[q].joins) :
        /\ Q[q].joins[i].kind = "INNER"
        /\ Q[q].joins[i].condition # <<>>
        /\ Q[q].joins[i].condition[1].a = s

\* C6: every filter whose expression contains an aggregate is stored in the
\* HAVING (group-filter) list; in every reachable state the WHERE list holds
\* no aggregated expression.
C6_NoAggregateInWhere ==
  \A q \in QIds :
    Q[q].alive =>
      \A i \in 1..Len(Q[q].filters) :
        ~Q[q].filters[i].aggregated /\ ~HasAggText(Q[q].filters[i].sql_text)

\* the GROUP BY list of a statement
GroupByOf(text) ==
  LET at == {i \in 1..Len(text) : text[i] = Kw("GROUP BY")}
  IN IF at = {} THEN <<>>
     ELSE LET i == CHOOSE x \in at : TRUE
              ends == {j \in (i + 1)..Len(text) : text[j].k = "kw"}
              j == IF ends = {} THEN Len(text) + 1
                   ELSE CHOOSE x \in ends : \A y \in ends : x <= y
          IN SubSeq(text, i + 1, j - 1)
\* the ordinal positions of the select expressions that hold no aggregate
RECURSIVE PlainOrdinals(_, _, _)
PlainOrdinals(query, h, n) ==
  IF n > Len(query.fields) THEN <<>>
  ELSE (IF HasAggText(h[query.fields[n].ref].sql_text) THEN <<>> ELSE << <<NumTok(n)>> >>)
         \o PlainOrdinals(query, h, n + 1)
HasAggregateSelected(query, h) ==
  \E n \in 1..Len(query.fields) : HasAggText(h[query.fields[n].ref].sql_text)

\* C7: with no explicit group keys and an aggregate in the select list, the
\* compiled statement groups by exactly the ordinal positions of the select
\* expressions that are not aggregates; with explicit group keys, by exactly
\* those keys.
C7_GroupByInference ==
  \A q \in QIds :
    (Q[q].alive /\ Q[q].chained_opts = NoChain) =>
      LET r == TranslatorSelect(Cur, q, 0, FALSE)
      IN Ok(r.S) =>
           /\ (Q[q].groups = <<>> /\ HasAggregateSelected(Q[q], heap))
                => GroupByOf(r.text) = JoinToks(PlainOrdinals(Q[q], heap, 1), <<Op(",")>>)
           /\ Q[q].groups # <<>>
                => GroupByOf(r.text) = JoinToks(Texts(Q[q].groups), <<Op(",")>>)

C9_ImportKeepsOuterArgs ==
  [][last'.op = "with_query" =>
       LET before == Q[last'.q].args
           after == Q'[last'.q].args
       IN /\ \A k \in ArgsKeys(before) :
               k \in ArgsKeys(after) /\ ArgOf(after, k) = ArgOf(before, k)
          /\ \A k \in ArgsKeys(after) \ ArgsKeys(before) : k.a # <<>>]_vars

\* C10: a clone made by copy() shares no mutable clause state with the
\* original: a call on one query leaves the select list, join map, filters,
\* group and order lists, WITH list and argument table of every other query
\* unchanged, fetch_* and slicing (which work on a clone) leave the query
\* they are called on unchanged, and the names of the queries differ.
C10_CloneSharesNothing ==
  [][/\ \A q \in QIds :
          (Q[q].alive /\ last'.q # q)
            => ClauseState(Q'[q], heap') = ClauseState(Q[q], heap)
     /\ last'.op \in {"fetch_aggregate", "slice"}
          => ClauseState(Q'[last'.q], heap') = ClauseState(Q[last'.q], heap)
     /\ \A q1, q2 \in QIds :
          (Q'[q1].alive /\ Q'[q2].alive /\ q1 # q2) => Q'[q1].name # Q'[q2].name]_vars

\* the walk: from the row whose id is the seed along next, until NULL, an id
\* no row has, or a row the walk has been at
RECURSIVE ChainWalk(_, _, _)
ChainWalk(tbl, id, seen) ==
  IF id \notin 1..Len(tbl) \/ id \in seen THEN <<>>
  ELSE <<[id |-> id, next |-> tbl[id]]>> \o ChainWalk(tbl, tbl[id], seen \cup {id})

C12_ChainedTerminates ==
  /\ [](/\ chain.steps <= Len(ChainWalk(chain.tbl, chain.seed, {}))
        /\ Len(chain.out) <= Len(ChainWalk(chain.tbl, chain.seed, {})))
  /\ (chain.pc = "recursing") ~> (chain.pc = "done")

\* a cycle was walked to its end in a table with a row outside it
C12_CycleEvaluated ==
  /\ chain.pc = "done"
  /\ chain.out # <<>>
  /\ \E j \in 1..Len(chain.out) : chain.out[Len(chain.out)].next = chain.out[j].id
  /\ Len(chain.out) < Len(chain.tbl)

\* C13: Translator.select is a pure function of the query: it leaves the
\* select list, the join map, the filter, group and order lists and the
\* argument table as they were, and a second compilation of the same query
\* returns the same text
C13_CompileIsPure ==
  \A q \in QIds :
    Q[q].alive =>
      LET r == TranslatorSelect(Cur, q, 0, TRUE)
      IN /\ SelectList(r.S.Q[q], r.S.heap) = SelectList(Q[q], heap)
         /\ r.S.Q[q].joins = Q[q].joins
         /\ r.S.Q[q].filters = Q[q].filters
         /\ r.S.Q[q].groups = Q[q].groups
         /\ r.S.Q[q].sort_list = Q[q].sort_list
         /\ r.S.Q[q].args = Q[q].args
         /\ Ok(r.S) => TranslatorSelect(r.S, q, 0, TRUE).text = r.text

\* C14: a write of several steps runs on one connection, and when a step of
\* it fails none of its statements is ever committed, neither when the error
\* propagates nor by a later operation that succeeds on the same connection
C14_FailedWriteNeverCommitted ==
  \A s \in conn.committed : s.write \notin conn.raised

\* the junction tables bound to the factory that link tables t and u
Junctions(t, u) ==
  {j \in 1..Len(mod.tables) :
     /\ ~mod.tables[j].in_module /\ mod.tables[j].owner = ""
     /\ \E k \in 1..Len(mod.tables[j].fields) :
          mod.tables[j].fields[k].ref /\ mod.tables[j].fields[k].type = t
     /\ \E k \in 1..Len(mod.tables[j].fields) :
          mod.tables[j].fields[k].ref /\ mod.tables[j].fields[k].type = u}

\* C15: once a module with a many-to-many relation between two tables,
\* declared on either side, was resolved and not rejected, there is exactly
\* one junction table for the relation and it is the middle table of the
\* field on both sides; resolving again leaves every table as it is
C15_OneJunctionPerRelation ==
  /\ [](mod.binds >= 1 /\ mod.err \notin {"QuazyFieldTypeError", "QuazyFieldNameError"} =>
          \A i \in 1..Len(mod.tables) :
            \A k \in 1..Len(mod.tables[i].many_to_many_fields) :
              LET t == mod.tables[i]
                  f == t.many_to_many_fields[k]
                  far == Get(mod.tables, f.foreign_table)
              IN  t.in_module =>
                    /\ Cardinality(Junctions(t.name, far.name)) = 1
                    /\ \E j \in Junctions(t.name, far.name) : mod.tables[j].name = f.middle_table
                    /\ \E g \in 1..Len(far.many_to_many_fields) :
                         /\ far.many_to_many_fields[g].foreign_table = t.name
                         /\ far.many_to_many_fields[g].middle_table = f.middle_table)
  /\ [][mod.binds >= 1 /\ mod.err \notin {"QuazyFieldTypeError", "QuazyFieldNameError"}
          => mod'.tables = mod.tables]_vars

\* the fields of table u that are foreign keys to table t
ForeignKeys(u, t) ==
  {k \in 1..Len(Get(mod.tables, u).fields) :
     Get(mod.tables, u).fields[k].ref /\ Get(mod.tables, u).fields[k].type = t}

\* C16: in a module whose relations are one-to-many, resolving fails with
\* QuazyFieldTypeError exactly when a Many field has no foreign key to its
\* table on the far side, and a Many field whose far side has such a key is
\* connected to it, in whatever order the tables were declared
C16_ManyConnectsToForeignKey ==
  (mod.binds = 1 /\ \A i \in 1..Len(mod.tables) : mod.tables[i].many_to_many_fields = <<>>) =>
    /\ mod.err = "QuazyFieldTypeError" <=>
         \E i \in 1..Len(mod.tables) : \E k \in 1..Len(mod.tables[i].many_fields) :
           ForeignKeys(mod.tables[i].many_fields[k].foreign_table, mod.tables[i].name) = {}
    /\ \A i \in 1..Len(mod.tables) : \A k \in 1..Len(mod.tables[i].many_fields) :
         LET f == mod.tables[i].many_fields[k]
         IN  ForeignKeys(f.foreign_table, mod.tables[i].name) # {} =>
               \E r \in ForeignKeys(f.foreign_table, mod.tables[i].name) :
                 Get(mod.tables, f.foreign_table).fields[r].name = f.foreign_field

\* C17: every declared table has exactly one field flagged pk, and DB.pk is
\* that field
C17_OnePrimaryKey ==
  \A i \in 1..Len(mod.tables) :
    /\ Cardinality({k \in 1..Len(mod.tables[i].fields) : mod.tables[i].fields[k].pk}) = 1
    /\ \A k \in 1..Len(mod.tables[i].fields) :
         mod.tables[i].fields[k].pk => mod.tables[i].fields[k].name = mod.tables[i].pk

\* C18: no table nested in a table that has a field called like the
\* collection of the nested table gets declared, and a module where the
\* target of a foreign key has a field called like the reverse name of the
\* key is rejected with QuazyFieldNameError when it is resolved
C18_RelationNameCollides ==
  /\ \A i \in 1..Len(mod.tables) :
       mod.tables[i].owner # "" =>
         ~Has(Get(mod.tables, mod.tables[i].owner).fields, mod.tables[i].snake_name)
  /\ mod.binds >= 1 =>
       \A i \in 1..Len(mod.tables) : \A k \in 1..Len(mod.tables[i].fields) :
         (/\ mod.tables[i].in_module
          /\ mod.tables[i].fields[k].ref
          /\ Has(Get(mod.tables, mod.tables[i].fields[k].type).fields, mod.tables[i].snake_name))
         => mod.err = "QuazyFieldNameError"

\* the type tag of a field: what _dump_schema writes for its type, or, for a
\* field just loaded, for the type that waits in its annotation
TypeTag(f) ==
  IF f.ref THEN (IF f.type = "" THEN f.target ELSE f.type)
  ELSE db_type_name(IF f.type = "" THEN f.target ELSE f.type)

C20_RelationsJoinLeft ==
  /\ \A i \in 1..Len(Q[1].joins) :
       Q[1].joins[i].tbl \in {"comment", "task_watchers", "user"} =>
         /\ Q[1].joins[i].kind = "LEFT"
         /\ Len(Q[1].joins[i].alias) = 3
         /\ SubSeq(Q[1].joins[i].alias, 1, 2) = <<"task", "__">>
         /\ Q[1].joins[i].alias[3] \in {"comments", "watchers"}
  /\ related.pc = "fetched" =>
       \A p \in Tasks : \E r \in related.result : r[<<"task">>].id = p

\* C30: q[key] = value changes only the conditions built from var(key): a
\* condition that compares title with the literal 1 is bound to the value 1
\* in every state, whatever was assigned to a variable afterwards
C30_LiteralKeepsItsValue ==
  \A q \in QIds :
    Q[q].alive =>
      \A i \in 1..Len(Q[q].filters) :
        LET t == Q[q].filters[i].sql_text
        IN  (/\ Len(t) = 3
             /\ t[1] = ColTok(<<"task">>, "title")
             /\ t[2] = Op("=")
             /\ t[3].k = "ph")
            => /\ Key(t[3].s, t[3].a, t[3].n) \in ArgsKeys(Q[q].args)
               /\ ArgOf(Q[q].args, Key(t[3].s, t[3].a, t[3].n)) = 1

\* C23: on a live, unfrozen table-bound query exclude() does not fail on its
\* own: it never raises TypeError, and when it returns it has added exactly
\* one condition to the WHERE filters or the group filters
C23_ExcludeAddsAndReturns ==
  [][(/\ last'.op = "exclude"
      /\ Q[last'.q].alive
      /\ ~is_frozen(Q[last'.q]))
     => /\ last'.err # TypeError
        /\ last'.err = NoErr
             => Len(Q'[last'.q].filters) + Len(Q'[last'.q].group_filters)
                  = Len(Q[last'.q].filters) + Len(Q[last'.q].group_filters) + 1]_vars


\* C25: every expression of the filter list and of the group-filter list of a
\* query occurs in the text compiled for it
Occurs(part, text) ==
  \E i \in 0..(Len(text) - Len(part)) : SubSeq(text, i + 1, i + Len(part)) = part
AllOccur(query, text) ==
  /\ \A i \in 1..Len(query.filters) : Occurs(query.filters[i].sql_text, text)
  /\ \A i \in 1..Len(query.group_filters) : Occurs(query.group_filters[i].sql_text, text)
CompiledKeepsFilters(r, query) == Ok(r.S) => AllOccur(query, r.text)
C25_FiltersReachTheStatement ==
  \A q \in QIds :
    (Q[q].alive /\ Q[q].chained_opts = NoChain) =>
      CompiledKeepsFilters(TranslatorSelect(Cur, q, 0, FALSE), Q[q])



\* ------------------------------------------------ a query and its sub-query
\* The calls that build a sub-query and hand it to an outer query, in every
\* order: db.query(Task), select('title', 'amount'), with_query(sub),
\* filter(lambda x: x.title == 1), var('n', 1).
MaxSubOps == 4

SubNewQuery ==
  /\ Free # {}
  /\ LET i == CHOOSE i \in Free : \A j \in Free : i <= j
     IN DoUpTo(MaxSubOps, "query", i, [Cur EXCEPT !.Q[i] = NewDBQuery(i, "task")])
SubSelect ==
  \E q \in Alive :
    DoUpTo(MaxSubOps, "select", q, select(Cur, q, SelectCalls[1].names, SelectCalls[1].kw))
SubWithQuery ==
  \E q \in Alive, sub \in Alive :
    /\ sub # q
    /\ DoUpTo(MaxSubOps, "with_query", q, with_query(Cur, q, sub, FALSE))
SubFilter ==
  \E q \in Alive :
    DoUpTo(MaxSubOps, "filter", q, filter(Cur, q, FilterExprs[1], <<>>))
SubDefineVar ==
  \E q \in Alive :
    DoUpTo(MaxSubOps, "var", q, var(Cur, q, "n", 1).S)

NextSub == SubNewQuery \/ SubSelect \/ SubWithQuery \/ SubFilter \/ SubDefineVar
SpecSub == Init /\ [][NextSub]_vars

\* C26: every placeholder of the statement compiled when a query is executed,
\* the text of its CTEs included, names a key of the argument table of the
\* query, which is the table passed to the cursor with the statement
AllBound(r, q) ==
  Ok(r.S) =>
    \A i \in 1..Len(r.text) :
      r.text[i].k = "ph"
        => Key(r.text[i].s, r.text[i].a, r.text[i].n) \in ArgsKeys(r.S.Q[q].args)
BoundWhenExecuted(S1, q) == Ok(S1) => AllBound(TranslatorSelect(S1, q, 0, TRUE), q)
C26_PlaceholdersAreBound ==
  \A q \in QIds : Q[q].alive => BoundWhenExecuted(check_fields(Cur, q), q)


\* C27: when a query with a chain is executed, the seed and the recursive
\* step of the chain both select a column named by the id field and a column
\* named by the next field
BranchSelects(r, opts) ==
  Ok(r.S) =>
    /\ Occurs(<<Kw("AS"), NameTok(<<opts.id_name>>)>>, r.text)
    /\ Occurs(<<Kw("AS"), NameTok(<<opts.next_name>>)>>, r.text)
BothBranchesSelect(S1, q) ==
  Ok(S1) =>
    /\ BranchSelects(TranslatorSelect(S1, q, 1, TRUE), S1.Q[q].chained_opts)
    /\ BranchSelects(TranslatorSelect(S1, q, 2, TRUE), S1.Q[q].chained_opts)
C27_ChainSelectsIdAndNext ==
  \A q \in QIds :
    (Q[q].alive /\ Q[q].chained_opts # NoChain) => BothBranchesSelect(check_fields(Cur, q), q)


\* ------------------------------------------------- a polymorphic family
\* class Catalog(DBTable): _extendable_ = True; cid: FieldCID; name
\* class ItemCatalog(Catalog): unit
\* The branch shares the table of its root; its rows carry its tag in cid.
MaxFamilyOps == 4

\* table_class.DB.extendable, .cid.name and .discriminator of ItemCatalog
extendable(table) == table = "catalog"
cid(table) == "cid"
discriminator(table) == MaxVal + 5

\* DBQuery._collect_scheme of a new query: the filter on the discriminator
collect_scheme(S, q) ==
  IF extendable(S.Q[q].table_class)
  THEN FilterKw(S, q, <<[k |-> cid(S.Q[q].table_class),
                         v |-> PyVal(discriminator(S.Q[q].table_class))]>>, "=")
  ELSE S

\* DBQuery.get
get(S, q, pk_id) ==
  IF ~S.Q[q].fetch_objects THEN Raise(S, QuazyWrongOperation)
  ELSE fetch(AppendFilter(Compare(scheme_pk([S EXCEPT !.Q[q].filters = <<>>], q,
                                            scheme(S, q)),
                                  q, "=", PyVal(pk_id)), q), q)

Family == {q \in Alive : extendable(Q[q].table_class)}

\* db.query(ItemCatalog)
FamilyQuery ==
  /\ Free # {}
  /\ LET i == CHOOSE i \in Free : \A j \in Free : i <= j
     IN DoUpTo(MaxFamilyOps, "query", i,
               collect_scheme([Cur EXCEPT !.Q[i] = NewDBQuery(i, "catalog")], i))
FamilyFilter ==
  \E q \in Family, v \in Values :
    DoUpTo(MaxFamilyOps, "filter", q, filter(Cur, q, Absent, <<[k |-> "name", v |-> PyVal(v)]>>))
FamilySelect ==
  \E q \in Family, names \in {<<"name">>, <<"pk">>} :
    DoUpTo(MaxFamilyOps, "select", q, select(Cur, q, names, <<>>))
FamilyCopy ==
  /\ Free # {}
  /\ \E q \in Family :
       LET i == CHOOSE i \in Free : \A j \in Free : i <= j
       IN DoUpTo(MaxFamilyOps, "copy", q, copy(Cur, q, i))
FamilyGet ==
  \E q \in Family, pk_id \in Values :
    DoUpTo(MaxFamilyOps, "get", q, get(Cur, q, pk_id))
FamilyFetchCount ==
  \E q \in Family :
    DoUpTo(MaxFamilyOps, "fetch_aggregate", q, fetch_aggregate(Cur, q, "count", Absent))
FamilySlice ==
  \E q \in Family :
    DoUpTo(MaxFamilyOps, "slice", q, slice(Cur, q, 0, 1))

NextFamily ==
  \/ FamilyQuery \/ FamilyFilter \/ FamilySelect \/ FamilyCopy
  \/ FamilyGet \/ FamilyFetchCount \/ FamilySlice
SpecFamily == Init /\ [][NextFamily]_vars

\* C28: every query bound to a table of a polymorphic family has, in every
\* state, a WHERE filter that compares the discriminator column with the tag
\* of its table
RestrictsToBranch(query, f) ==
  /\ Len(f.sql_text) = 3
  /\ f.sql_text[1] = ColTok(<<query.table_class>>, cid(query.table_class))
  /\ f.sql_text[2] = Op("=")
  /\ f.sql_text[3].k = "ph"
  /\ Key(f.sql_text[3].s, f.sql_text[3].a, f.sql_text[3].n) \in ArgsKeys(query.args)
  /\ ArgOf(query.args, Key(f.sql_text[3].s, f.sql_text[3].a, f.sql_text[3].n))
       = discriminator(query.table_class)
C28_DiscriminatorFilterStays ==
  \A q \in Family : \E i \in 1..Len(Q[q].filters) : RestrictsToBranch(Q[q], Q[q].filters[i])


\* ------------------------------------------- update of an item's relations
\* class Task(DBTable): watchers: ManyToMany[User]; class Row(DBSubTable)
\* One task with primary key 1. store.rows and store.watchers are the lists
\* of the object in memory (the primary keys of the rows in them),
\* store.sub_rows and store.links are the rows of the sub-table and of the
\* junction table as the connection sees them.
Users == 1..2
SubRows == 1..2
MaxUpdates == 2

\* Python values: an int and a one-character str never compare equal
PyInt(n) == <<"int", n>>
PyChr(c) == <<"str", c>>

\* TranslatorPSQL.select_many_indices: array_agg gives a list, NULL for no row
array_agg(links) == {PyInt(u) : u \in links}
\* TranslatorSQLite.select_many_indices: group_concat gives the str '1,2'
RECURSIVE group_concat(_)
group_concat(links) ==
  IF links = {} THEN <<>>
  ELSE LET u == CHOOSE u \in links : \A w \in links : u <= w
       IN <<PyChr(<<"0", "1", "2", "3", "4", "5", "6", "7", "8", "9">>[u + 1])>>
            \o (IF links = {u} THEN <<>> ELSE <<PyChr(",")>> \o group_concat(links \ {u}))
\* results = curr.fetchone(); set(results[0]) if results[0] else set()
old_indices(translator, links) ==
  IF translator = "sqlite"
  THEN {group_concat(links)[i] : i \in 1..Len(group_concat(links))}
  ELSE array_agg(links)

\* TranslatorPSQL.delete_many_indices, which TranslatorSQLite inherits: its
\* `in %(indices)s` is not a statement of SQLite
delete_many_indices(st, indices_to_delete) ==
  IF st.translator = "sqlite" THEN [st EXCEPT !.err = "OperationalError"]
  ELSE [st EXCEPT !.links = {u \in @ : PyInt(u) \notin indices_to_delete},
                  !.deleted = {u \in st.links : PyInt(u) \in indices_to_delete}]
\* insert_many_index, by copy or by executemany
insert_many_index(st, indices_to_add) ==
  IF st.err # NoErr THEN st
  ELSE [st EXCEPT !.links = @ \cup {u \in Users : PyInt(u) \in indices_to_add},
                  !.inserted = {u \in Users : PyInt(u) \in indices_to_add}]

\* the many-to-many part of update: delete old items, add new items
SyncIndices(st, new_indices, old) ==
  insert_many_index(IF old \ new_indices # {}
                    THEN delete_many_indices(st, old \ new_indices) ELSE st,
                    new_indices \ old)
\* DBFactory.update: the sub-rows are deleted and the rows of the list are
\* inserted, then the junction rows are synchronised
update(st) ==
  SyncIndices([st EXCEPT !.sub_rows = st.rows, !.deleted = {}, !.inserted = {},
                         !.err = NoErr],
              {PyInt(u) : u \in st.watchers}, old_indices(st.translator, st.links))

\* DBFactory.postgres(...) / DBFactory.sqlite(...)
OpenStore ==
  /\ store.translator = ""
  /\ \E translator \in {"psql", "sqlite"} : store' = [store EXCEPT !.translator = translator]
  /\ UNCHANGED <<Q, heap, nops, last, chain, conn, mod, schema, related, site>>
\* item = Task(): __pre_init__ without a primary key makes the lists
NewItem ==
  /\ store.translator # ""
  /\ store.item = "none"
  /\ store' = [store EXCEPT !.item = "new"]
  /\ UNCHANGED <<Q, heap, nops, last, chain, conn, mod, schema, related, site>>
\* item.watchers.append(user) / item.watchers.remove(user)
ChangeWatchers ==
  /\ store.item # "none"
  /\ \E u \in Users :
       store' = [store EXCEPT !.watchers = IF u \in @ THEN @ \ {u} ELSE @ \cup {u},
                              !.touched = TRUE]
  /\ UNCHANGED <<Q, heap, nops, last, chain, conn, mod, schema, related, site>>
\* item.rows.append(Task.Row(...))
AppendRow ==
  /\ store.item # "none"
  /\ \E r \in SubRows :
       /\ r \notin store.rows
       /\ store' = [store EXCEPT !.rows = @ \cup {r}, !.touched = TRUE]
  /\ UNCHANGED <<Q, heap, nops, last, chain, conn, mod, schema, related, site>>
\* db.insert(item): the sub-rows and the junction rows of the lists
InsertItem ==
  /\ store.item = "new"
  /\ store' = [store EXCEPT !.item = "saved", !.sub_rows = store.rows,
                            !.links = store.watchers]
  /\ UNCHANGED <<Q, heap, nops, last, chain, conn, mod, schema, related, site>>
\* item = db.get(Task, 1): raw() and __pre_init__ with a primary key make
\* each collection an empty ListGetter
FetchItem ==
  /\ store.item = "saved"
  /\ store' = [store EXCEPT !.item = "fetched", !.rows = {}, !.watchers = {},
                            !.touched = FALSE]
  /\ UNCHANGED <<Q, heap, nops, last, chain, conn, mod, schema, related, site>>
\* db.update(item)
UpdateItem ==
  /\ store.item \in {"saved", "fetched"}
  /\ store.updates < MaxUpdates
  /\ store' = [update(store) EXCEPT !.updates = @ + 1]
  /\ UNCHANGED <<Q, heap, nops, last, chain, conn, mod, schema, related, site>>

NextStore ==
  \/ OpenStore \/ NewItem \/ ChangeWatchers \/ AppendRow
  \/ InsertItem \/ FetchItem \/ UpdateItem
SpecStore == Init /\ [][NextStore]_vars

\* C21: on both dialects update(item) completes, and then the junction rows
\* of the item are the primary keys of its collection: the links missing from
\* the collection were deleted, the new ones inserted, and no link that is in
\* both was deleted or inserted
C21_UpdateSyncsJunction ==
  [][store'.updates = store.updates + 1
       => /\ store'.err = NoErr
          /\ store'.links = store.watchers
          /\ store'.deleted = store.links \ store.watchers
          /\ store'.inserted = store.watchers \ store.links]_vars

\* C29: update of an item that was fetched and whose collections were not
\* touched since leaves the stored sub-rows and junction rows as they were
C29_UpdateKeepsUnloaded ==
  [][(/\ store'.updates = store.updates + 1
      /\ store.item = "fetched"
      /\ ~store.touched)
     => /\ store'.sub_rows = store.sub_rows
        /\ store'.links = store.links]_vars


\* ------------------------------------------------- a with-block with reuse
\*   with SomeTable.query() as q:
\*       q.reuse()
\*       q.filter(name=q.var("name"))      # this line runs once
\*   q["name"] = n
\*   q.fetch_one()
\* One call site, entered by two callers. site.dicts holds the __dict__ of
\* every query object made: the number of its filters, its argument "name"
\* (<<>> while there is no such key) and its _hash; site.obj[c] is the
\* __dict__ of the object caller c holds; site.queries is the entry of
\* DBQuery.queries for the call site, 0 while there is none.
Callers == 1..2
MaxEntries == 2

\* SomeTable.query() and __enter__
enter(s, c) ==
  [s EXCEPT !.dicts = Append(@, [filters |-> 0, name |-> <<>>, hash |-> FALSE]),
            !.obj[c] = Len(s.dicts) + 1,
            !.entries[c] = @ + 1,
            !.err[c] = NoErr,
            !.pc[c] = "entered"]

\* a reuse that goes on into the block when the query is stored
reuse_goes_on(s, c) ==
  IF s.queries # 0
  THEN [s EXCEPT !.obj[c] = s.queries, !.pc[c] = "body"]
  ELSE [s EXCEPT !.dicts[s.obj[c]].hash = TRUE, !.pc[c] = "body"]
\* DBQuery.reuse, and __exit__ with the SaveException it raises
reuse(s, c) ==
  IF s.queries # 0
  THEN [s EXCEPT !.obj[c] = s.queries, !.pc[c] = "after"]
  ELSE [s EXCEPT !.dicts[s.obj[c]].hash = TRUE, !.pc[c] = "body"]

\* q.filter(name=q.var("name"))
block(s, c) ==
  [s EXCEPT !.dicts[s.obj[c]].filters = @ + 1,
            !.dicts[s.obj[c]].name = <<None>>,
            !.ran[c] = @ + 1,
            !.pc[c] = "exit"]

\* DBQuery.__exit__ with no exception, or with one that is not SaveException
exit(s, c, exc) ==
  [s EXCEPT !.queries = IF s.dicts[s.obj[c]].hash THEN s.obj[c] ELSE @,
            !.err[c] = exc,
            !.pc[c] = IF exc = NoErr THEN "after" ELSE "out"]

\* DBQuery.__setitem__ on the caller's object
set_name(s, c, value) ==
  IF s.dicts[s.obj[c]].name = <<>>
  THEN [s EXCEPT !.err[c] = QuazyWrongOperation, !.pc[c] = "out"]
  ELSE [s EXCEPT !.dicts[s.obj[c]].name = <<value>>, !.pc[c] = "set"]

\* q.fetch_one(): db.select passes query.args with the statement
fetch_one(s, c) ==
  [s EXCEPT !.used[c] = s.dicts[s.obj[c]].name[1], !.pc[c] = "out"]

Enter ==
  /\ \E c \in Callers :
       /\ site.pc[c] = "out"
       /\ site.entries[c] < MaxEntries
       /\ site' = enter(site, c)
  /\ UNCHANGED <<Q, heap, nops, last, chain, conn, mod, schema, related, store>>
Reuse ==
  /\ \E c \in Callers : site.pc[c] = "entered" /\ site' = reuse(site, c)
  /\ UNCHANGED <<Q, heap, nops, last, chain, conn, mod, schema, related, store>>
Block ==
  /\ \E c \in Callers : site.pc[c] = "body" /\ site' = block(site, c)
  /\ UNCHANGED <<Q, heap, nops, last, chain, conn, mod, schema, related, store>>
\* a statement of the block raises before it has built a clause
BlockRaises ==
  /\ \E c \in Callers : site.pc[c] = "body" /\ site' = exit(site, c, QuazyError)
  /\ UNCHANGED <<Q, heap, nops, last, chain, conn, mod, schema, related, store>>
Exit ==
  /\ \E c \in Callers : site.pc[c] = "exit" /\ site' = exit(site, c, NoErr)
  /\ UNCHANGED <<Q, heap, nops, last, chain, conn, mod, schema, related, store>>
\* each caller sets its own value: caller c sets c
SetName ==
  /\ \E c \in Callers : site.pc[c] = "after" /\ site' = set_name(site, c, c)
  /\ UNCHANGED <<Q, heap, nops, last, chain, conn, mod, schema, related, store>>
FetchOne ==
  /\ \E c \in Callers : site.pc[c] = "set" /\ site' = fetch_one(site, c)
  /\ UNCHANGED <<Q, heap, nops, last, chain, conn, mod, schema, related, store>>

NextSite == Enter \/ Reuse \/ Block \/ BlockRaises \/ Exit \/ SetName \/ FetchOne
SpecSite == Init /\ [][NextSite]_vars

\* C22: every execution uses the value its own caller set for the variable
C22_OwnValueUsed ==
  [][\A c \in Callers :
       (site.pc[c] = "set" /\ site'.pc[c] = "out") => site'.used[c] = c]_vars

\* C24: an entry of the block that finds the query of the call site stored
\* leaves the block at reuse() with no exception and without running the
\* statements after it, and holds the stored query with its clauses as they
\* are; a caller runs the statements after reuse() at most once
LaterEntrySkips(c) ==
  (site.pc[c] = "entered" /\ site'.pc[c] # "entered" /\ site.queries # 0)
    => /\ site'.pc[c] = "after"
       /\ site'.err[c] = NoErr
       /\ site'.ran = site.ran
       /\ site'.dicts = site.dicts
       /\ site'.obj[c] = site.queries
C24_BlockRunsOnFirstEntryOnly ==
  /\ [](\A c \in Callers : site.ran[c] <= 1)
  /\ [][\A c \in Callers : LaterEntrySkips(c)]_vars
\* a caller that ran the block on its first entry has left its second one
C24_SecondEntrySkipped ==
  \E c \in Callers :
    /\ site.entries[c] = 2
    /\ site.ran[c] = 1
    /\ site.pc[c] = "after"
    /\ site.obj[c] = site.queries
    /\ site.dicts[site.obj[c]].filters = 1

====
